---- MODULE Spec2Model ----
(***************************************************************************)
(* Order-state propagation pipeline of the indexer:                        *)
(*   - the coordination primitive (locks and dedup markers kept in Redis), *)
(*     packages/indexer/src/common/redis.ts;                               *)
(*   - the OpenSea websocket ingestor, src/unnamed/part_001;               *)
(*   - the order-updates-by-id queue and its worker, the second half of    *)
(*     packages/indexer/src/api/endpoints/activities/get-user-activity/    *)
(*     v6.ts (lines 268-684).                                              *)
(*   - the simulate-order endpoint and its revalidation requests,          *)
(*     packages/indexer/src/api/endpoints/management/post-simulate-order/  *)
(*     v1.ts.                                                              *)
(* Time is counted in seconds.  Redis commands are atomic.  A lock         *)
(* function sends one command and touches nothing else that is shared, so  *)
(* each call is one step, taken when Redis runs its command; concurrent    *)
(* callers are the interleavings of these steps.                           *)
(***************************************************************************)
EXTENDS Integers, Sequences, FiniteSets, TLC

(************************* bounds of the model *****************************)
NCallers == 3   \* concurrent callers of the lock functions
MaxCalls == 3   \* lock-function calls in one behaviour
MaxTtl   == 2   \* largest expirationInSeconds passed to the lock functions
MaxTicks == 1   \* clock advances in one behaviour

MaxEvents == 3  \* push messages the feed delivers in one behaviour
MaxPending == 2 \* callbacks that await their dedup reply at one time
\* maxEventsSize on chain 1; the source has 200 there (part_001 line 31), the
\* model keeps the number small and the code's comparison with it unchanged
maxEventsSizeChain1 == 2

MaxEntries == 3
MaxAdds == 2    \* addToQueue calls on the order-updates queue in one behaviour
MaxFailures == 5 \* awaited calls of the worker that reject in one behaviour
\* removeOnComplete and removeOnFail: how many finished jobs the queue keeps;
\* the source has 1000 for both (v6.ts lines 306-307), the model keeps the
\* numbers small
removeOnComplete == 1
removeOnFail == 1
MaxWorkerFailures == 2 \* failed attempts of the one job of the worker's specification
MaxQueued == 2  \* commands that wait in the client's offline queue at one time
MaxDrops == 1   \* times the connection to Redis is lost in one behaviour
MaxSimulations == 2 \* calls of the simulate-order endpoint in one behaviour

Callers   == 1..NCallers
LockNames == {"X", "Y"}
\* expirationInSeconds as passed by callers: 0 is acquireLock's default
LockTtls  == 0..MaxTtl

VARIABLES
  redisKeys,   \* the Redis keyspace: key -> [present, val, exp]
  clock,       \* the time, seconds
  ticks,       \* how many times the clock advanced
  calls,       \* lock-function calls so far
  lockRet,     \* the lock function that ran last: caller, arguments, result
  acqTrue,     \* history: lock name -> acquireLock calls that returned true
               \*   since the key was last absent
  acqFalse,    \* history: the same for the calls that returned false
  released,    \* history: lock name -> releaseLock calls that ran since the last
               \*   acquireLock on the name
  afterRelease \* history: lock name -> the value of released when the last
               \*   acquireLock on the name ran

VARIABLES
  chainId,     \* config.chainId
  delivered,   \* push messages delivered so far
  pending,     \* events whose callback awaits the reply of its dedup check,
               \*   in the order the one Redis connection answers them
  bidsEvents,  \* the in-memory buffer of bid triggers
  listingsCalls, \* orderbookOpenseaListings.addToQueue calls: batch and state
  ordersCalls, \* orderbookOrders.addToQueue calls: batch and state
  markedAt,    \* history: dedup key -> when a check last reported it new (-1: never)
  lastCheck,   \* history: the last dedup check: key, time, result, and markedAt
               \*   of the key before it
  acceptedBids, \* history: the bid triggers pushed to the buffer, in push order
  metadataCalls, \* metadataIndexWrite.addToQueue calls: batch and state
  lastEvent    \* history: the event of the callback that ran last, and what its
               \*   payload held

ingestVars == <<chainId, delivered, pending, bidsEvents, listingsCalls, ordersCalls,
                markedAt, lastCheck, acceptedBids, metadataCalls, lastEvent>>

VARIABLES
  orders,      \* the orders table joined with its token set: order id -> row
  jobs,        \* the order-updates-by-id queue: job id (context) -> job
  completedIds, \* the completed jobs the queue keeps, oldest first
  failedIds,   \* the failed jobs the queue keeps, oldest first
  adds,        \* addToQueue calls so far
  failures,    \* rejected calls so far
  effects,     \* what the worker's runs did, per context and in order: rows
               \*   inserted, jobs enqueued elsewhere, events sent
  created,     \* history: context -> jobs created with it as job id
  runs,        \* history: context -> runs of the worker started for it
  finished,    \* history: context -> runs that returned without throwing
  lastAdd,     \* history: the last addToQueue call: its entries and the job
               \*   ids it created
  lastRun      \* history: the last run of the worker: job data, the order it
               \*   loaded, what it did, whether it threw

jobVars == <<orders, jobs, completedIds, failedIds, adds, failures, effects, created,
             runs, finished, lastAdd, lastRun>>

VARIABLES
  connected,   \* whether the client's connection to Redis is up
  offlineQueue, \* the lock-function commands sent while it is down, oldest first
  resent,      \* history: whether the lock function that returned last had its
               \*   command sent while the connection was down
  drops        \* how many times the connection was lost

storeVars == <<connected, offlineQueue, resent, drops>>

VARIABLES
  simulations, \* calls of the simulate-order endpoint so far
  revalidateCalls, \* the POST /admin/revalidate-order requests injected, in order
  lastSimulation \* history: the last call of the endpoint: its payload, the
               \*   order row it read, what the simulation gave, its reply and
               \*   the requests it injected

simVars == <<simulations, revalidateCalls, lastSimulation>>

lockVars == <<calls, lockRet, acqTrue, acqFalse, released, afterRelease>>
redisVars == <<redisKeys, clock, ticks>>

\* a value that is not given (undefined)
None == ""

(***************************** Redis ***************************************)
\* a key of the lock functions is the lock's name itself
LockKey(name) == <<name>>
LockKeys == {LockKey(n) : n \in LockNames}

\* event kinds of the feed: the four the order callback subscribes to, and one
\* more that handleEvent does not recognise
OrderEventTypes == {"item_listed", "item_received_bid", "collection_offer", "trait_offer"}
BidEventTypes == {"item_received_bid", "collection_offer", "trait_offer"}
EventTypes == OrderEventTypes \cup {"item_sold"}
OrderHashes == {"h1", "h2"}
NftIds == {"ethereum/0xc/1"}
\* payload.sent_at of a metadata update: not given, or a time stamp
PayloadSentAts == {None, "2023-01-01T00:00:00"}

\* a push message of the order kinds
OrderEvent(type, hash, now) ==
  [event_type |-> type, order_hash |-> hash, nft_id |-> None, chain |-> None,
   payload_sent_at |-> None, sent_at |-> now]

\* a push message of kind item_metadata_updated, for an item of a chain
MetadataEvent(nft, chainName, sent, now) ==
  [event_type |-> "item_metadata_updated", order_hash |-> None, nft_id |-> nft,
   chain |-> chainName, payload_sent_at |-> sent, sent_at |-> now]

\* generateHash(...parts): a hash of its arguments; distinct arguments give
\* distinct hashes
generateHash(parts) == parts

\* getEventHash: the kind and the payload's order hash; for a metadata update
\* the kind, the item's nft_id and the sent_at read from the payload
getEventHash(event) ==
  IF event.event_type = "item_metadata_updated"
  THEN generateHash(<<event.event_type, event.nft_id, event.payload_sent_at>>)
  ELSE generateHash(<<event.event_type, event.order_hash>>)

\* the key isDuplicateEvent sets
EventKey(event) == <<"opensea-websocket-event:", getEventHash(event)>>
EventKeys ==
  {EventKey(OrderEvent(t, h, 0)) : t \in EventTypes, h \in OrderHashes}
  \cup {EventKey(MetadataEvent(n, None, sent, 0)) : n \in NftIds, sent \in PayloadSentAts}

NoKey == [present |-> FALSE, val |-> 0, exp |-> 0]
\* exp = 0: the key has no expiry; otherwise the second at which it is gone
Entry(v, ex, now) == [present |-> TRUE, val |-> v, exp |-> IF ex = 0 THEN 0 ELSE now + ex]

Exists(keys, k) == keys[k].present

\* SET k v [EX ex] [NX|XX]: mode "NX" writes only an absent key, "XX" only an
\* existing one, "" always; the reply is "OK" when written and null otherwise
RedisSet(keys, k, v, ex, mode, now) ==
  LET written == CASE mode = "NX" -> ~Exists(keys, k)
                   [] mode = "XX" -> Exists(keys, k)
                   [] OTHER -> TRUE
  IN [reply |-> IF written THEN "OK" ELSE "NULL",
      keys  |-> IF written THEN [keys EXCEPT ![k] = Entry(v, ex, now)] ELSE keys]

\* DEL k
RedisDel(keys, k) == [keys EXCEPT ![k] = NoKey]

(************************ the lock functions *******************************)
NoRet == [caller |-> 0, op |-> "none", name |-> "", ex |-> 0, val |-> FALSE]

\* randomUUID(): an id that no key holds (the smallest such number stands for it)
UsedIds == {redisKeys[k].val : k \in LockKeys}
randomUUID == CHOOSE i \in 1..(Cardinality(UsedIds) + 1) : i \notin UsedIds

\* the history of a lock name starts again when its key is gone
Episode(count, keys) ==
  [n \in LockNames |-> IF Exists(keys, LockKey(n)) THEN count[n] ELSE 0]

\* a command of a lock function as the client holds it
Command(c, op, name, ex) == [caller |-> c, op |-> op, name |-> name, ex |-> ex]

\* the client is created with maxRetriesPerRequest: null and the offline queue
\* left on: a command sent while the connection is down is kept, without
\* limit of time, and the call stays pending
Offline(c, op, name, ex) ==
  /\ ~connected
  /\ Len(offlineQueue) < MaxQueued
  /\ op = "extend" => ex # 0
  /\ offlineQueue' = Append(offlineQueue, Command(c, op, name, ex))
  /\ UNCHANGED <<connected, resent, drops, redisVars, lockVars, ingestVars, simVars, jobVars>>

\* Redis answers the command of a call: one sent on a connection that is up
\* and has nothing waiting, or the oldest of the offline queue once the
\* connection is back
Answered(c, op, name, ex) ==
  /\ connected
  /\ IF offlineQueue = <<>>
     THEN resent' = FALSE /\ UNCHANGED offlineQueue
     ELSE /\ Head(offlineQueue) = Command(c, op, name, ex)
          /\ offlineQueue' = Tail(offlineQueue)
          /\ resent' = TRUE

\* the connection is lost
Disconnect ==
  /\ connected
  /\ drops < MaxDrops
  /\ connected' = FALSE
  /\ drops' = drops + 1
  /\ UNCHANGED <<offlineQueue, resent, redisVars, lockVars, ingestVars, simVars, jobVars>>

\* the client's retry strategy gets the connection back
Reconnect ==
  /\ ~connected
  /\ connected' = TRUE
  /\ UNCHANGED <<offlineQueue, resent, drops, redisVars, lockVars, ingestVars, simVars, jobVars>>

\* the same command with the NX forgotten
acquireLockSetPlain(keys, name, id, ex, now) == RedisSet(keys, LockKey(name), id, ex, "", now)

\* the command with the EX never sent
acquireLockSetNoExpiry(keys, name, id, ex, now) == RedisSet(keys, LockKey(name), id, 0, "NX", now)

\* the command acquireLock sends: SET name id [EX ex] NX, EX only for a truthy
\* expirationInSeconds
acquireLockSet(keys, name, id, ex, now) == RedisSet(keys, LockKey(name), id, ex, "NX", now)

\* acquireLock(name, expirationInSeconds = 0), called by c
acquireLock(c, name, ex) ==
  /\ calls < MaxCalls
  /\ Answered(c, "acquire", name, ex)
  /\ calls' = calls + 1
  /\ LET set == acquireLockSet(redisKeys, name, randomUUID, ex, clock)
         acquired == set.reply
     IN /\ redisKeys' = set.keys
        /\ lockRet' = [caller |-> c, op |-> "acquire", name |-> name, ex |-> ex,
                       val |-> (acquired = "OK")]
        /\ acqTrue' = [acqTrue EXCEPT ![name] = IF acquired = "OK" THEN @ + 1 ELSE @]
        /\ acqFalse' = [acqFalse EXCEPT ![name] = IF acquired = "OK" THEN @ ELSE @ + 1]
        /\ released' = [released EXCEPT ![name] = 0]
        /\ afterRelease' = [afterRelease EXCEPT ![name] = released[name]]
  /\ UNCHANGED <<clock, ticks, ingestVars, simVars, jobVars, connected, drops>>

\* the same command with the XX forgotten
extendLockSetPlain(keys, name, id, ex, now) == RedisSet(keys, LockKey(name), id, ex, "", now)

\* the command extendLock sends: SET name id EX ex XX
extendLockSet(keys, name, id, ex, now) == RedisSet(keys, LockKey(name), id, ex, "XX", now)

\* extendLock(name, expirationInSeconds), called by c with a positive expiration
extendLock(c, name, ex) ==
  /\ calls < MaxCalls
  /\ Answered(c, "extend", name, ex)
  /\ ex # 0
  /\ calls' = calls + 1
  /\ LET set == extendLockSet(redisKeys, name, randomUUID, ex, clock)
         extended == set.reply
     IN /\ redisKeys' = set.keys
        /\ lockRet' = [caller |-> c, op |-> "extend", name |-> name, ex |-> ex,
                       val |-> (extended = "OK")]
  /\ UNCHANGED <<clock, ticks, acqTrue, acqFalse, released, afterRelease, ingestVars, simVars, jobVars, connected, drops>>

\* a DEL sent for another spelling of the key, one that nobody sets
releaseLockDelOther(keys, name) == keys

\* the command releaseLock sends: DEL name
releaseLockDel(keys, name) == RedisDel(keys, LockKey(name))

\* releaseLock(name), called by c
releaseLock(c, name) ==
  /\ calls < MaxCalls
  /\ Answered(c, "release", name, 0)
  /\ calls' = calls + 1
  /\ redisKeys' = releaseLockDel(redisKeys, name)
  /\ lockRet' = [caller |-> c, op |-> "release", name |-> name, ex |-> 0, val |-> FALSE]
  /\ released' = [released EXCEPT ![name] = @ + 1]
  /\ acqTrue' = Episode(acqTrue, redisKeys')
  /\ acqFalse' = Episode(acqFalse, redisKeys')
  /\ UNCHANGED <<clock, ticks, afterRelease, ingestVars, simVars, jobVars, connected, drops>>

\* every key with an expiry is gone at the next look
ExpireAtOnce(keys, now) ==
  [k \in DOMAIN keys |-> IF keys[k].present /\ keys[k].exp # 0 THEN NoKey ELSE keys[k]]

\* a key whose expiry has been reached is gone
Expire(keys, now) ==
  [k \in DOMAIN keys |->
     IF keys[k].present /\ keys[k].exp # 0 /\ keys[k].exp <= now THEN NoKey ELSE keys[k]]

\* time passes: d seconds, and the keys whose expiry is reached are gone
Tick(d) ==
  /\ ticks < MaxTicks
  /\ ticks' = ticks + 1
  /\ clock' = clock + d
  /\ redisKeys' = Expire(redisKeys, clock + d)
  /\ acqTrue' = Episode(acqTrue, redisKeys')
  /\ acqFalse' = Episode(acqFalse, redisKeys')
  /\ UNCHANGED <<calls, lockRet, released, afterRelease, ingestVars, simVars, jobVars, storeVars>>

(************************ the OpenSea ingestor ******************************)
DedupTtl == 60 * 5

maxEventsSize == IF chainId = 1 THEN maxEventsSizeChain1 ELSE 1

\* what a payload turns out to hold when the callback reads it: whether the
\* kind's handler returns order parameters, and what protocol_data and
\* protocol_address decode to
ProtocolKinds == {"seaport", "seaport-v1.4", "seaport-v1.5"}

\* Sdk.SeaportV11 / V14 / V15 .Addresses.Exchange[chain], and the addresses a
\* payload may name: these, those of another chain, and another contract
Exchange(kind, chain) == <<kind, chain>>
ProtocolAddresses ==
  {Exchange(k, c) : k \in ProtocolKinds, c \in {1, 5, 137}} \cup {<<"other", 0>>}

\* what the kind's handler does with the payload: order parameters, null, or
\* an exception
HandlerResults == {"params", "null", "throws"}
\* protocol_data of a payload: absent, without parameters, parameters the
\* Order constructor rejects, or well-formed
ProtocolDatas == {"missing", "no-parameters", "invalid-order", "valid"}
Payloads ==
  [params : HandlerResults, protocol_data : ProtocolDatas, protocol_address : ProtocolAddresses]
NoPayload == [params |-> "null", protocol_data |-> "missing", protocol_address |-> <<"other", 0>>]

\* isDuplicateEvent with the NX forgotten
isDuplicateEventPlain(keys, event, now) == RedisSet(keys, EventKey(event), now, DedupTtl, "", now)

\* the command isDuplicateEvent sends: SET key now() EX 300 NX
isDuplicateEventSet(keys, event, now) == RedisSet(keys, EventKey(event), now, DedupTtl, "NX", now)

\* isDuplicateEvent returns setResult === null
isDuplicateEvent(keys, event, now) == isDuplicateEventSet(keys, event, now).reply = "NULL"

\* handleEvent: the kind's handler for the four kinds, null for any other
handleEvent(type, payload) ==
  IF type \in OrderEventTypes
  THEN (IF payload.params = "params" THEN <<type, "params">> ELSE <<payload.params>>)
  ELSE <<"null">>

\* parseProtocolData taking any address for the newest exchange
parseProtocolDataAnyAddress(payload) ==
  IF payload.protocol_data \in {"missing", "no-parameters", "invalid-order"}
  THEN "undefined" ELSE "seaport-v1.5"

\* parseProtocolData: the order kind of the exchange address, undefined when
\* protocol_data is missing, the address is none of the three, or decoding
\* throws (caught inside)
parseProtocolData(payload) ==
  LET protocol == payload.protocol_address
      order(kind) == IF payload.protocol_data = "invalid-order" THEN "undefined" ELSE kind
  IN IF payload.protocol_data = "missing" THEN "undefined"
     ELSE IF payload.protocol_data = "no-parameters" THEN "undefined"
     ELSE IF protocol = Exchange("seaport", chainId) THEN order("seaport")
     ELSE IF protocol = Exchange("seaport-v1.4", chainId) THEN order("seaport-v1.4")
     ELSE IF protocol = Exchange("seaport-v1.5", chainId) THEN order("seaport-v1.5")
     ELSE "undefined"

\* the GenericOrderInfo built for an accepted event
OrderInfo(event, protocolData) ==
  [kind |-> protocolData, orderParams |-> event.order_hash,
   originatedAt |-> event.sent_at, isOpenSea |-> TRUE,
   openSeaOrderParams |-> event.event_type]

\* the feed delivers a push message: the callback starts and awaits its dedup
\* check
Deliver(type, hash) ==
  /\ delivered < MaxEvents
  /\ Len(pending) < MaxPending
  /\ delivered' = delivered + 1
  /\ pending' = Append(pending, OrderEvent(type, hash, clock))
  /\ UNCHANGED <<chainId, bidsEvents, listingsCalls, ordersCalls, markedAt, lastCheck,
                 acceptedBids, metadataCalls, lastEvent, redisVars, lockVars, jobVars, simVars, storeVars>>

\* bidsEvents.length >= maxEventsSize, with > written for >=
FlushDueLate(buffer) == Len(buffer) > maxEventsSize

\* bidsEvents.length >= maxEventsSize
FlushDue(buffer) == Len(buffer) >= maxEventsSize

\* the flush that copies the buffer and leaves it as it is
SpliceCopy(buffer) == [removed |-> buffer, left |-> buffer]

\* bidsEvents.splice(0, bidsEvents.length): the elements removed, which are
\* the batch, and what is left in the array
Splice(buffer) == [removed |-> buffer, left |-> <<>>]

\* the routing test taking collection offers for listings
IsListingOrOffer(event) == event.event_type \in {"item_listed", "collection_offer"}

\* eventType === EventType.ITEM_LISTED
IsListing(event) == event.event_type = "item_listed"

\* the callback that goes on although its event is a duplicate
AcceptedAnyway(duplicate, openSeaOrderParams, protocolData) ==
  openSeaOrderParams \notin {<<"null">>, <<"throws">>} /\ protocolData # "undefined"

\* the callback goes on to build a trigger: not a duplicate, order parameters
\* from handleEvent, protocol data from parseProtocolData
Accepted(duplicate, openSeaOrderParams, protocolData) ==
  ~duplicate /\ openSeaOrderParams \notin {<<"null">>, <<"throws">>} /\ protocolData # "undefined"

\* the callback of onEvents from the reply of its dedup check on, up to its
\* return; ok tells whether the addToQueue call it awaits, if any, resolves
\* (or rejects, which the callback catches and logs)
onEvents(payload, ok) ==
  /\ connected
  /\ pending # <<>>
  /\ Head(pending).event_type # "item_metadata_updated"
  /\ pending' = Tail(pending)
  /\ LET event == Head(pending)
         key == EventKey(event)
         duplicate == isDuplicateEvent(redisKeys, event, clock)
         openSeaOrderParams == handleEvent(event.event_type, payload)
         protocolData == parseProtocolData(payload)
         orderInfo == OrderInfo(event, protocolData)
         accepted == Accepted(duplicate, openSeaOrderParams, protocolData)
         pushed == Append(bidsEvents, orderInfo)
         state == IF ok THEN "resolved" ELSE "rejected"
     IN /\ redisKeys' = isDuplicateEventSet(redisKeys, event, clock).keys
        /\ lastCheck' = [key |-> key, at |-> clock, dup |-> duplicate, prev |-> markedAt[key]]
        /\ lastEvent' = [event |-> event, payload |-> payload, parsed |-> None]
        /\ markedAt' = IF duplicate THEN markedAt ELSE [markedAt EXCEPT ![key] = clock]
        /\ IF accepted /\ IsListing(event)
           THEN /\ listingsCalls' = Append(listingsCalls, [batch |-> <<orderInfo>>, state |-> state])
                /\ UNCHANGED <<bidsEvents, ordersCalls, acceptedBids>>
           ELSE IF accepted
           THEN /\ acceptedBids' = Append(acceptedBids, orderInfo)
                /\ IF FlushDue(pushed)
                   THEN /\ bidsEvents' = Splice(pushed).left
                        /\ ordersCalls' = Append(ordersCalls, [batch |-> Splice(pushed).removed,
                                                               state |-> state])
                   ELSE /\ bidsEvents' = pushed
                        /\ ok
                        /\ UNCHANGED ordersCalls
                /\ UNCHANGED listingsCalls
           ELSE /\ ok
                /\ UNCHANGED <<bidsEvents, listingsCalls, ordersCalls, acceptedBids>>
  /\ UNCHANGED <<chainId, delivered, clock, ticks, metadataCalls, lockVars, jobVars, simVars, storeVars>>

\* the process stops and starts again: the module's bidsEvents array is new
\* and empty and the callbacks that were awaiting a reply are gone; the keys
\* in Redis and the calls already made stay
Crash ==
  /\ bidsEvents # <<>> \/ pending # <<>>
  /\ bidsEvents' = <<>>
  /\ pending' = <<>>
  /\ UNCHANGED <<chainId, delivered, listingsCalls, ordersCalls, markedAt, lastCheck,
                 acceptedBids, metadataCalls, lastEvent, redisVars, lockVars, jobVars, simVars, storeVars>>

\* getSupportedChainName(), and the chain names of the items of the feed
getSupportedChainName ==
  CASE chainId = 1 -> "ethereum" [] chainId = 5 -> "goerli" [] OTHER -> "matic"
ChainNames == {"ethereum", "goerli", "matic"}
ParseResults == {"parsed", "null", "throws"}

\* the delivery of a metadata update without the test of the chain
DeliverMetadataAnyChain(nft, sent, chainName) ==
  /\ delivered < MaxEvents
  /\ Len(pending) < MaxPending
  /\ delivered' = delivered + 1
  /\ pending' = Append(pending, MetadataEvent(nft, chainName, sent, clock))
  /\ UNCHANGED <<chainId, bidsEvents, listingsCalls, ordersCalls, markedAt, lastCheck,
                 acceptedBids, metadataCalls, lastEvent, redisVars, lockVars, jobVars, simVars, storeVars>>

\* the feed delivers a metadata update: the callback returns at once for an
\* item of another chain, otherwise it starts its dedup check
DeliverMetadata(nft, sent, chainName) ==
  /\ delivered < MaxEvents
  /\ Len(pending) < MaxPending
  /\ delivered' = delivered + 1
  /\ pending' = IF getSupportedChainName # chainName THEN pending
                ELSE Append(pending, MetadataEvent(nft, chainName, sent, clock))
  /\ UNCHANGED <<chainId, bidsEvents, listingsCalls, ordersCalls, markedAt, lastCheck,
                 acceptedBids, metadataCalls, lastEvent, redisVars, lockVars, jobVars, simVars, storeVars>>


\* the callback goes on to the write: not a duplicate, and parseTokenMetadata
\* gave metadata
MetadataAccepted(duplicate, parsed) == ~duplicate /\ parsed = "parsed"

\* the callback of onItemMetadataUpdated from the reply of its dedup check on;
\* parsed is what MetadataApi.parseTokenMetadata does, ok whether the
\* addToQueue call resolves
onItemMetadataUpdated(parsed, ok) ==
  /\ connected
  /\ pending # <<>>
  /\ Head(pending).event_type = "item_metadata_updated"
  /\ pending' = Tail(pending)
  /\ LET event == Head(pending)
         key == EventKey(event)
         duplicate == isDuplicateEvent(redisKeys, event, clock)
     IN /\ redisKeys' = isDuplicateEventSet(redisKeys, event, clock).keys
        /\ lastCheck' = [key |-> key, at |-> clock, dup |-> duplicate, prev |-> markedAt[key]]
        /\ lastEvent' = [event |-> event, payload |-> NoPayload, parsed |-> parsed]
        /\ markedAt' = IF duplicate THEN markedAt ELSE [markedAt EXCEPT ![key] = clock]
        /\ IF MetadataAccepted(duplicate, parsed)
           THEN metadataCalls' =
                  Append(metadataCalls, [batch |-> <<<<event.nft_id, "opensea">>>>,
                                         state |-> IF ok THEN "resolved" ELSE "rejected"])
           ELSE ok /\ UNCHANGED metadataCalls
  /\ UNCHANGED <<chainId, delivered, clock, ticks, bidsEvents, listingsCalls, ordersCalls,
                 acceptedBids, lockVars, jobVars, simVars, storeVars>>

(******************** the order-updates-by-id queue *************************)
attempts == 5

HashZero == "0x0000"

Contexts == {"c1", "c2"}
OrderIds == {"o1"}
TriggerKinds == {"new-order", "reprice", "cancel", "revalidate"}
Sides == {"sell", "buy"}
\* token set ids, as the part before the first colon and the rest: a single
\* token, a token list, a whole contract
TokenSetIds ==
  {[scheme |-> "token", rest |-> "123"], [scheme |-> "list", rest |-> "abc"],
   [scheme |-> "contract", rest |-> "0xc"]}
NoTokenSet == [scheme |-> None, rest |-> None]
\* token_sets_tokens.contract, token_sets_tokens.token_id and orders.maker; an
\* address column is denoted by the address it holds
Contracts == {"0xc"}
TokenIds == {"123"}
Makers == {"0xm1", "0xm2"}
FillabilityStatuses == {"fillable", "filled", "cancelled", "expired", "no-balance"}
ApprovalStatuses == {"approved", "no-approval"}

\* what the worker's SELECT returns: a row of orders joined with
\* token_sets_tokens, or nothing
NoRow == [found |-> FALSE, id |-> None, side |-> None, tokenSetId |-> NoTokenSet,
          fillabilityStatus |-> None, approvalStatus |-> None,
          contract |-> None, tokenId |-> None, maker |-> None]
Rows ==
  [found : {TRUE}, id : OrderIds, side : Sides, tokenSetId : TokenSetIds,
   fillabilityStatus : FillabilityStatuses, approvalStatus : ApprovalStatuses,
   contract : Contracts, tokenId : TokenIds, maker : Makers]

\* OrderInfo, the data of a job
OrderInfos ==
  [context : Contexts, trigger : [kind : TriggerKinds], id : OrderIds \cup {None, HashZero},
   tokenSetId : TokenSetIds \cup {NoTokenSet}, side : Sides \cup {None}]

NoJob == [state |-> "none", data |-> <<>>, attemptsMade |-> 0]

\* Queue.add with an id the queue holds or not: the job is created anyway
QueueAddAgain(js, orderInfo) ==
  [js EXCEPT ![orderInfo.context] = [state |-> "waiting", data |-> orderInfo, attemptsMade |-> 0]]

\* Queue.add with opts.jobId = orderInfo.context: a job whose id the queue
\* still holds, in whatever state, is not added again
QueueAdd(js, orderInfo) ==
  IF js[orderInfo.context] # NoJob
  THEN js
  ELSE [js EXCEPT ![orderInfo.context] = [state |-> "waiting", data |-> orderInfo, attemptsMade |-> 0]]

\* queue.addBulk: the entries are added one after the other
RECURSIVE AddBulk(_, _)
AddBulk(js, orderInfos) ==
  IF orderInfos = <<>> THEN js
  ELSE AddBulk(QueueAdd(js, Head(orderInfos)), Tail(orderInfos))

\* the entries addToQueue drops
IsEmptyOrder(orderInfo) == orderInfo.id = HashZero

\* the filter that also drops the entries without an id
OrdersWithId(orderInfos) == SelectSeq(orderInfos, LAMBDA o : ~IsEmptyOrder(o) /\ o.id # None)

\* the job addToQueue makes of an entry: named after the order id, or after
\* tokenSetId + "-" + side, and with the context as jobId
BulkJob(orderInfo) ==
  [name |-> IF orderInfo.id # None THEN orderInfo.id
            ELSE orderInfo.tokenSetId.scheme \o ":" \o orderInfo.tokenSetId.rest
                 \o "-" \o orderInfo.side,
   data |-> orderInfo,
   opts |-> [jobId |-> orderInfo.context]]

\* the entries addToQueue hands to queue.addBulk
NonEmptyOrders(orderInfos) == SelectSeq(orderInfos, LAMBDA o : ~IsEmptyOrder(o))

\* addToQueue(orderInfos)
addToQueue(orderInfos) ==
  /\ adds < MaxAdds
  /\ adds' = adds + 1
  /\ jobs' = AddBulk(jobs, NonEmptyOrders(orderInfos))
  /\ created' = [c \in Contexts |-> IF jobs[c] = NoJob /\ jobs'[c] # NoJob THEN created[c] + 1 ELSE created[c]]
  /\ lastAdd' = [orderInfos |-> orderInfos, before |-> jobs,
                  bulk |-> [i \in DOMAIN NonEmptyOrders(orderInfos) |->
                              BulkJob(NonEmptyOrders(orderInfos)[i])]]
  /\ UNCHANGED <<orders, completedIds, failedIds, failures, effects, runs, finished, lastRun,
                 redisVars, lockVars, ingestVars, simVars, storeVars>>

\* a worker takes a waiting job
Start(c) ==
  /\ jobs[c].state = "waiting"
  /\ jobs' = [jobs EXCEPT ![c].state = "active"]
  /\ runs' = [runs EXCEPT ![c] = @ + 1]
  /\ UNCHANGED <<orders, completedIds, failedIds, adds, failures, effects, created, finished,
                 lastAdd, lastRun, redisVars, lockVars, ingestVars, simVars, storeVars>>

\* the backoff delay of a failed attempt is over
Retry(c) ==
  /\ jobs[c].state = "delayed"
  /\ jobs' = [jobs EXCEPT ![c].state = "waiting"]
  /\ UNCHANGED <<orders, completedIds, failedIds, adds, failures, effects, created, runs,
                 finished, lastAdd, lastRun, redisVars, lockVars, ingestVars, simVars, storeVars>>

\* tokenSetId.startsWith(prefix), for the prefixes the worker tests
StartsWith(tokenSetId, prefix) == tokenSetId.scheme = prefix

\* updateFloorAskPriceInfo of the nft-balance recompute
NoTarget == [contract |-> None, tokenId |-> None, owner |-> None]

\* one awaited call of the worker and what it writes
Effect(sink, trigger, status, eventKind, orderId, tokenSetId) ==
  [sink |-> sink, trigger |-> trigger.kind, status |-> status, eventKind |-> eventKind,
   orderId |-> orderId, tokenSetId |-> tokenSetId, target |-> NoTarget]

\* the CASE of the INSERT with the approval test first
OrderEventStatusApprovalFirst(order) ==
  CASE order.approvalStatus = "no-approval" -> "inactive"
    [] order.fillabilityStatus = "filled" -> "filled"
    [] order.fillabilityStatus = "cancelled" -> "cancelled"
    [] order.fillabilityStatus = "expired" -> "expired"
    [] order.fillabilityStatus = "no-balance" -> "inactive"
    [] OTHER -> "active"

\* the CASE of the INSERT without the WHEN on the approval status
OrderEventStatusNoApproval(order) ==
  IF order.fillabilityStatus = "filled" THEN "filled"
  ELSE IF order.fillabilityStatus = "cancelled" THEN "cancelled"
  ELSE IF order.fillabilityStatus = "expired" THEN "expired"
  ELSE IF order.fillabilityStatus = "no-balance" THEN "inactive"
  ELSE "active"

\* the status CASE of the INSERT INTO order_events; the first WHEN that holds wins
OrderEventStatus(order) ==
  IF order.fillabilityStatus = "filled" THEN "filled"
  ELSE IF order.fillabilityStatus = "cancelled" THEN "cancelled"
  ELSE IF order.fillabilityStatus = "expired" THEN "expired"
  ELSE IF order.fillabilityStatus = "no-balance" THEN "inactive"
  ELSE IF order.approvalStatus = "no-approval" THEN "inactive"
  ELSE "active"

\* the activity gate without the status test
ActivityEventKindUngated(trigger, order) ==
  IF trigger.kind = "cancel"
  THEN (IF order.side = "sell" THEN "sellOrderCancelled" ELSE "buyOrderCancelled")
  ELSE IF trigger.kind \in {"new-order", "reprice"}
  THEN (IF order.side = "sell" THEN "newSellOrder" ELSE "newBuyOrder")
  ELSE None

\* eventInfo.kind of the activity event, None when eventInfo stays undefined
ActivityEventKind(trigger, order) ==
  IF trigger.kind = "cancel"
  THEN (IF order.side = "sell" THEN "sellOrderCancelled"
        ELSE IF order.side = "buy" THEN "buyOrderCancelled" ELSE None)
  ELSE IF /\ trigger.kind \in {"new-order", "reprice"}
          /\ order.fillabilityStatus = "fillable"
          /\ order.approvalStatus = "approved"
  THEN (IF order.side = "sell" THEN "newSellOrder"
        ELSE IF order.side = "buy" THEN "newBuyOrder" ELSE None)
  ELSE None

\* the top-bid recompute without the single-token exception
TopBidCallsAlways(trigger, side, tokenSetId) ==
  IF side = "buy" THEN << <<Effect("topBid", trigger, None, None, None, tokenSetId)>> >> ELSE <<>>

\* buy side: the top-bid recompute, skipped for single-token sets
TopBidCalls(trigger, side, tokenSetId) ==
  IF side = "buy" /\ ~StartsWith(tokenSetId, "token")
  THEN << <<Effect("topBid", trigger, None, None, None, tokenSetId)>> >>
  ELSE <<>>

\* sell side with the floor recompute alone
FloorAskCallsSingle(trigger, side, tokenSetId) ==
  IF side = "sell"
  THEN << <<Effect("floorAsk", trigger, None, None, None, tokenSetId)>> >>
  ELSE <<>>

\* sell side: the two floor recomputes, started together under Promise.all
FloorAskCalls(trigger, side, tokenSetId) ==
  IF side = "sell"
  THEN << <<Effect("floorAsk", trigger, None, None, None, tokenSetId),
            Effect("normalizedFloorAsk", trigger, None, None, None, tokenSetId)>> >>
  ELSE <<>>

\* the nft-balance recompute of a loaded sell order
NftBalanceCall(trigger, order) ==
  [Effect("nftBalance", trigger, None, None, order.id, order.tokenSetId)
     EXCEPT !.target = [contract |-> order.contract, tokenId |-> order.tokenId,
                        owner |-> order.maker]]

\* the sell branch taken for every loaded order
OrderEventCallsLedgerOnly(trigger, order) ==
  << <<Effect("orderEvents", trigger, OrderEventStatus(order), None, order.id, order.tokenSetId)>>,
     <<NftBalanceCall(trigger, order)>> >>

\* loaded order: the ledger row and the balance recompute (sell), or the bid
\* events list (buy)
OrderEventCalls(trigger, order) ==
  IF order.side = "sell"
  THEN << <<Effect("orderEvents", trigger, OrderEventStatus(order), None, order.id, order.tokenSetId)>>,
          <<NftBalanceCall(trigger, order)>> >>
  ELSE IF order.side = "buy"
  THEN << <<Effect("bidEventsList", trigger, None, None, order.id, order.tokenSetId)>> >>
  ELSE <<>>

\* loaded order: the activity event, when there is one
ActivityCalls(trigger, order) ==
  IF ActivityEventKind(trigger, order) # None
  THEN << <<Effect("activity", trigger, None, ActivityEventKind(trigger, order), order.id, None)>> >>
  ELSE <<>>

\* the websocket notification sent only along with an activity event
WebsocketCallsWithActivity(trigger, order) ==
  IF ActivityEventKind(trigger, order) # None
  THEN << <<Effect("websocket", trigger, None,
                   IF order.side = "sell" THEN "SellOrder" ELSE "BuyOrder", order.id, None)>> >>
  ELSE <<>>

\* loaded order: the websocket notification
WebsocketCalls(trigger, order) ==
  << <<Effect("websocket", trigger, None,
              IF order.side = "sell" THEN "SellOrder" ELSE "BuyOrder", order.id, None)>> >>

\* the calls of one run with the test of side alone
CallsSideOnly(trigger, order, side, tokenSetId) ==
  IF side = None THEN <<>>
  ELSE TopBidCalls(trigger, side, tokenSetId) \o FloorAskCalls(trigger, side, tokenSetId)
       \o (IF order.found
           THEN OrderEventCalls(trigger, order) \o ActivityCalls(trigger, order)
                \o WebsocketCalls(trigger, order)
           ELSE <<>>)

\* the awaited calls of one run in program order; the calls of one entry are
\* started together
Calls(trigger, order, side, tokenSetId) ==
  IF side = None \/ tokenSetId = NoTokenSet THEN <<>>
  ELSE TopBidCalls(trigger, side, tokenSetId) \o FloorAskCalls(trigger, side, tokenSetId)
       \o (IF order.found
           THEN OrderEventCalls(trigger, order) \o ActivityCalls(trigger, order)
                \o WebsocketCalls(trigger, order)
           ELSE <<>>)

\* the calls run with their rejections dropped
RECURSIVE ExecSettled(_, _)
ExecSettled(steps, F) ==
  IF steps = <<>> THEN [effects |-> <<>>, thrown |-> FALSE]
  ELSE [effects |-> SelectSeq(Head(steps), LAMBDA e : e.sink \notin F)
                    \o ExecSettled(Tail(steps), F).effects,
        thrown |-> FALSE]

\* runs the calls in order; F is the set of sinks whose call rejects. The
\* first entry with a rejected call ends the run; its other calls were started
RECURSIVE Exec(_, _)
Exec(steps, F) ==
  IF steps = <<>> THEN [effects |-> <<>>, thrown |-> FALSE]
  ELSE LET made == SelectSeq(Head(steps), LAMBDA e : e.sink \notin F)
       IN IF Len(made) < Len(Head(steps))
          THEN [effects |-> made, thrown |-> TRUE]
          ELSE LET rest == Exec(Tail(steps), F)
               IN [effects |-> made \o rest.effects, thrown |-> rest.thrown]

\* orderType of the latency log
OrderType(side, tokenSetId) ==
  IF side = "sell" THEN "listing"
  ELSE IF StartsWith(tokenSetId, "token") THEN "token_offer"
  ELSE IF StartsWith(tokenSetId, "list") THEN "attribute_offer"
  ELSE "collection_offer"

\* the latency step: not entered for want of order.validBetween, log written,
\* log skipped (orderStart > orderCreated), or an error thrown inside the try
LatencyOutcomes == {"no-window", "logged", "skipped", "threw"}

\* order && order.validBetween && trigger.kind === "new-order"
LatencyEntered(trigger, order, lat) ==
  order.found /\ lat # "no-window" /\ trigger.kind = "new-order"

\* the latency log of new orders: written, skipped (orderStart > orderCreated)
\* or given up on an error, which is swallowed
LatencyLog(trigger, order, side, tokenSetId, lat) ==
  IF LatencyEntered(trigger, order, lat) /\ lat = "logged"
  THEN <<Effect("orderLatency", trigger, None, OrderType(side, tokenSetId), order.id, None)>>
  ELSE <<>>

\* side and tokenSetId taken from the job data when the row is missing
ResolveFromData(d, order) ==
  IF d.id # None /\ order.found
  THEN [side |-> order.side, tokenSetId |-> order.tokenSetId]
  ELSE [side |-> d.side, tokenSetId |-> d.tokenSetId]

\* side and tokenSetId: those of the job data, replaced by order?.side and
\* order?.tokenSetId when the job data has an id
Resolve(d, order) ==
  IF d.id # None
  THEN [side |-> order.side, tokenSetId |-> order.tokenSetId]
  ELSE [side |-> d.side, tokenSetId |-> d.tokenSetId]

\* the processor with the latency step outside any try
HandlerLatencyUncaught(d, ords, F, lat) ==
  IF d.id # None /\ "load" \in F THEN [effects |-> <<>>, thrown |-> TRUE]
  ELSE LET order == IF d.id # None THEN ords[d.id] ELSE NoRow
           side == Resolve(d, order).side
           tokenSetId == Resolve(d, order).tokenSetId
           main == Exec(Calls(d.trigger, order, side, tokenSetId), F)
       IN IF main.thrown THEN main
          ELSE [effects |-> main.effects \o LatencyLog(d.trigger, order, side, tokenSetId, lat),
                thrown |-> LatencyEntered(d.trigger, order, lat) /\ lat = "threw"]

\* the processor of the worker on job data d
Handler(d, ords, F, lat) ==
  IF d.id # None /\ "load" \in F THEN [effects |-> <<>>, thrown |-> TRUE]
  ELSE LET order == IF d.id # None THEN ords[d.id] ELSE NoRow
           side == Resolve(d, order).side
           tokenSetId == Resolve(d, order).tokenSetId
           main == Exec(Calls(d.trigger, order, side, tokenSetId), F)
       IN IF main.thrown THEN main
          ELSE [effects |-> main.effects \o LatencyLog(d.trigger, order, side, tokenSetId, lat),
                thrown |-> FALSE]

Sinks == {"load", "topBid", "floorAsk", "normalizedFloorAsk", "orderEvents", "nftBalance",
          "bidEventsList", "activity", "websocket"}

\* keeps the newest `keep` ids of a finished list
Kept(ids, keep) == IF Len(ids) > keep THEN SubSeq(ids, Len(ids) - keep + 1, Len(ids)) ELSE ids
Range(seq) == {seq[i] : i \in DOMAIN seq}

\* the job after an attempt: completed, delayed for a retry, or failed once
\* `attempts` attempts were made
FinishedAttempt(job, thrown) ==
  IF ~thrown THEN [job EXCEPT !.state = "completed"]
  ELSE IF job.attemptsMade + 1 >= attempts
  THEN [job EXCEPT !.state = "failed", !.attemptsMade = @ + 1]
  ELSE [job EXCEPT !.state = "delayed", !.attemptsMade = @ + 1]

\* an active job runs the processor; the queue then moves the job and trims
\* the completed and the failed lists
process(c, F, lat) ==
  LET job == jobs[c]
      run == Handler(job.data, orders, F, lat)
      after == FinishedAttempt(job, run.thrown)
      completed == IF after.state = "completed" THEN Append(completedIds, c) ELSE completedIds
      failed == IF after.state = "failed" THEN Append(failedIds, c) ELSE failedIds
      evicted == (Range(completed) \ Range(Kept(completed, removeOnComplete)))
                 \cup (Range(failed) \ Range(Kept(failed, removeOnFail)))
  IN /\ job.state = "active"
     /\ run.thrown => failures[c] < MaxFailures
     /\ effects' = [effects EXCEPT ![c] = @ \o run.effects]
     /\ lastRun' = [context |-> c, data |-> job.data, effects |-> run.effects, thrown |-> run.thrown,
                  F |-> F, lat |-> lat, state |-> after.state]
     /\ failures' = [failures EXCEPT ![c] = IF run.thrown THEN @ + 1 ELSE @]
     /\ finished' = [finished EXCEPT ![c] = IF after.state = "completed" THEN @ + 1 ELSE @]
     /\ completedIds' = Kept(completed, removeOnComplete)
     /\ failedIds' = Kept(failed, removeOnFail)
     /\ jobs' = [x \in Contexts |-> IF x \in evicted THEN NoJob ELSE IF x = c THEN after ELSE jobs[x]]
     /\ UNCHANGED <<orders, adds, created, runs, lastAdd, redisVars, lockVars, ingestVars, simVars, storeVars>>

(********************* the simulate-order endpoint *************************)
\* what the handler finds on its way to the simulation: the kind of the
\* order, whether its currency is whitelisted and its contract listed as not
\* simulatable, the kind of the contract, whether a token of the token set
\* with an owner is found (buy side), the response of the execute endpoint,
\* and the result of ensureBuyTxSucceeds / ensureSellTxSucceeds
ExecuteResponses == {"not-200", "no-available-orders", "no-path", "no-sale-data", "ok"}
SimulationEnv ==
  [kind |-> "seaport-v1.5", currencyWhitelisted |-> FALSE, nonSimulatable |-> FALSE,
   contractKind |-> "erc721", tokenFound |-> TRUE, response |-> "ok", success |-> TRUE]
SimulationEnvs ==
  {[SimulationEnv EXCEPT !.success = ok] : ok \in BOOLEAN}
  \cup {[SimulationEnv EXCEPT !.kind = k] : k \in {"blur", "nftx", "sudoswap", "universe"}}
  \cup {[SimulationEnv EXCEPT !.currencyWhitelisted = TRUE],
         [SimulationEnv EXCEPT !.nonSimulatable = TRUE],
         [SimulationEnv EXCEPT !.contractKind = "erc20"],
         [SimulationEnv EXCEPT !.tokenFound = FALSE, !.success = FALSE]}
  \cup {[SimulationEnv EXCEPT !.response = r, !.success = ok] :
          r \in ExecuteResponses, ok \in BOOLEAN}

\* the reply of the handler, or the error it throws, with the requests injected
Reply(message, requests) == [message |-> message, thrown |-> FALSE, requests |-> requests]
Throw(message) == [message |-> message, thrown |-> TRUE, requests |-> <<>>]

\* logAndRevalidateOrder that does not look at payload.skipRevalidation
logAndRevalidateOrderUnskippable(skipRevalidation, id, status, revalidate) ==
  IF revalidate THEN <<[id |-> id, status |-> status]>> ELSE <<>>

\* logAndRevalidateOrder(id, status, {revalidate}): the request injected to
\* /admin/revalidate-order, if any
logAndRevalidateOrder(skipRevalidation, id, status, revalidate) ==
  IF ~skipRevalidation /\ revalidate THEN <<[id |-> id, status |-> status]>> ELSE <<>>

\* the two branches after the simulation, the same for a sell and a buy order
AfterSimulation(skipRevalidation, id, orderResult, success) ==
  IF success
  THEN LET needRevalidation == orderResult.fillabilityStatus # "fillable"
                                 \/ orderResult.approvalStatus # "approved"
       IN Reply("Order is fillable",
                logAndRevalidateOrder(skipRevalidation, id, "active", needRevalidation))
  ELSE LET needRevalidation == orderResult.fillabilityStatus = "fillable"
                                 /\ orderResult.approvalStatus = "approved"
       IN Reply("Order is not fillable",
                logAndRevalidateOrder(skipRevalidation, id, "inactive", needRevalidation))

\* from the response of the execute endpoint to the end of the handler
Simulate(skipRevalidation, id, orderResult, env) ==
  IF env.response = "not-200" THEN Reply("Simulation failed", <<>>)
  ELSE IF env.response = "no-available-orders" THEN Reply("No orders to simulate", <<>>)
  ELSE IF env.response \in {"no-path", "no-sale-data"} THEN Reply("Nothing to simulate", <<>>)
  ELSE AfterSimulation(skipRevalidation, id, orderResult, env.success)

\* the handler of postSimulateOrderV1Options
postSimulateOrderV1Handler(chain, skipRevalidation, id, orderResult, env) ==
  IF chain \notin {1, 137} THEN Reply("Simulation not supported", <<>>)
  ELSE IF ~orderResult.found THEN Throw("Could not find order")
  ELSE IF env.kind \in {"blur", "nftx", "sudoswap", "universe"}
  THEN Reply("Order not simulatable", <<>>)
  ELSE IF env.currencyWhitelisted THEN Reply("Order not simulatable", <<>>)
  ELSE IF env.nonSimulatable THEN Reply("Associated contract is not simulatable", <<>>)
  ELSE IF env.contractKind \notin {"erc721", "erc1155"}
  THEN Reply("Non-standard contracts not supported", <<>>)
  ELSE IF orderResult.side = "sell" THEN Simulate(skipRevalidation, id, orderResult, env)
  ELSE IF ~env.tokenFound THEN Throw("Could not simulate order")
  ELSE Simulate(skipRevalidation, id, orderResult, env)

\* POST to the endpoint with payload {id, skipRevalidation}
postSimulateOrderV1(id, skipRevalidation, env) ==
  LET orderResult == IF id \in OrderIds THEN orders[id] ELSE NoRow
      reply == postSimulateOrderV1Handler(chainId, skipRevalidation, id, orderResult, env)
  IN /\ simulations < MaxSimulations
     /\ simulations' = simulations + 1
     /\ revalidateCalls' = revalidateCalls \o reply.requests
     /\ lastSimulation' = [id |-> id, skipRevalidation |-> skipRevalidation,
                           orderResult |-> orderResult, env |-> env, message |-> reply.message,
                           thrown |-> reply.thrown, requests |-> reply.requests]
     /\ UNCHANGED <<redisVars, lockVars, ingestVars, jobVars, storeVars>>

vars == <<redisVars, lockVars, ingestVars, jobVars, storeVars, simVars>>

Keys == LockKeys \cup EventKeys

\* a second passes. While no key has an expiry the clock changes nothing the
\* program can see, and the step is left out
Elapse ==
  /\ \E k \in Keys : redisKeys[k].present /\ redisKeys[k].exp # 0
  /\ clock' = clock + 1
  /\ redisKeys' = Expire(redisKeys, clock + 1)
  /\ acqTrue' = Episode(acqTrue, redisKeys')
  /\ acqFalse' = Episode(acqFalse, redisKeys')
  /\ UNCHANGED <<ticks, calls, lockRet, released, afterRelease, ingestVars, simVars, jobVars, storeVars>>

InitRedis ==
  /\ redisKeys = [k \in Keys |-> NoKey]
  /\ clock = 0
  /\ ticks = 0

InitLock ==
  /\ calls = 0
  /\ lockRet = NoRet
  /\ acqTrue = [n \in LockNames |-> 0]
  /\ acqFalse = [n \in LockNames |-> 0]
  /\ released = [n \in LockNames |-> 0]
  /\ afterRelease = [n \in LockNames |-> 0]

NoEvent == [event |-> <<>>, payload |-> NoPayload, parsed |-> None]
NoCheck == [key |-> <<>>, at |-> 0, dup |-> FALSE, prev |-> -1]

\* config.chainId: mainnet, the Goerli testnet, another chain
ChainIds == {1, 5, 137}

InitIngest ==
  /\ chainId \in ChainIds
  /\ delivered = 0
  /\ pending = <<>>
  /\ bidsEvents = <<>>
  /\ listingsCalls = <<>>
  /\ ordersCalls = <<>>
  /\ markedAt = [k \in EventKeys |-> -1]
  /\ lastCheck = NoCheck
  /\ acceptedBids = <<>>
  /\ metadataCalls = <<>>
  /\ lastEvent = NoEvent

NoAdd == [orderInfos |-> <<>>, before |-> <<>>, bulk |-> <<>>]
NoRun == [context |-> None, data |-> <<>>, effects |-> <<>>, thrown |-> FALSE,
          F |-> {}, lat |-> None, state |-> None]
InitJobs ==
  /\ jobs = [c \in Contexts |-> NoJob]
  /\ completedIds = <<>>
  /\ failedIds = <<>>
  /\ adds = 0
  /\ failures = [c \in Contexts |-> 0]
  /\ effects = [c \in Contexts |-> <<>>]
  /\ created = [c \in Contexts |-> 0]
  /\ runs = [c \in Contexts |-> 0]
  /\ finished = [c \in Contexts |-> 0]
  /\ lastAdd = NoAdd
  /\ lastRun = NoRun

\* a sell order on the single token 123, fillable and approved
ListedOrder(id) ==
  [found |-> TRUE, id |-> id, side |-> "sell", tokenSetId |-> [scheme |-> "token", rest |-> "123"],
   fillabilityStatus |-> "fillable", approvalStatus |-> "approved",
   contract |-> "0xc", tokenId |-> "123", maker |-> "0xm1"]

InitStore ==
  /\ connected = TRUE
  /\ offlineQueue = <<>>
  /\ resent = FALSE
  /\ drops = 0

NoSimulation ==
  [id |-> None, skipRevalidation |-> FALSE, orderResult |-> NoRow, env |-> SimulationEnv,
   message |-> None, thrown |-> FALSE, requests |-> <<>>]
InitSimulate ==
  /\ simulations = 0
  /\ revalidateCalls = <<>>
  /\ lastSimulation = NoSimulation

Init ==
  /\ InitRedis /\ InitLock /\ InitIngest /\ InitJobs /\ InitStore /\ InitSimulate
  /\ orders = [o \in OrderIds |-> ListedOrder(o)]

\* a payload that decodes, and one whose protocol address is unknown
GoodPayload ==
  [params |-> "params", protocol_data |-> "valid", protocol_address |-> Exchange("seaport-v1.5", chainId)]
BadPayload ==
  [params |-> "params", protocol_data |-> "valid", protocol_address |-> <<"other", 0>>]

IngestNext ==
  \/ \E t \in EventTypes : Deliver(t, "h1")
  \/ \E payload \in {GoodPayload, BadPayload} : onEvents(payload, TRUE)

\* the ingestor on events of every kind: routing and batching
SpecIngest == Init /\ [][IngestNext]_vars

\* the clock advances to the last second of a dedup window, or to its end
TickSteps == {DedupTtl - 1, DedupTtl}

DedupNext ==
  \/ \E t \in {"item_listed", "item_sold"}, h \in OrderHashes : Deliver(t, h)
  \/ onEvents(GoodPayload, TRUE)
  \/ \E d \in TickSteps : Tick(d)

\* the ingestor's dedup check as time passes
SpecDedup == Init /\ [][DedupNext]_vars

LockNext ==
  \/ \E c \in Callers, n \in LockNames, ex \in LockTtls : acquireLock(c, n, ex)
  \/ \E c \in Callers, n \in LockNames, ex \in LockTtls : extendLock(c, n, ex)
  \/ \E c \in Callers, n \in LockNames : releaseLock(c, n)
  \/ Tick(1)

\* the coordination primitive under concurrent callers (the lock functions
\* read nothing of the configuration: one chain stands for all)
InitChain1 == Init /\ chainId = 1

SpecLock == InitChain1 /\ [][LockNext]_vars

OwnerNext ==
  \/ calls = 0 /\ acquireLock(1, "X", 0)
  \/ \E c \in Callers \ {1}, ex \in LockTtls : calls > 0 /\ acquireLock(c, "X", ex)
  \/ \E c \in Callers \ {1}, ex \in LockTtls : calls > 0 /\ extendLock(c, "X", ex)
  \/ \E c \in Callers \ {1} : calls > 0 /\ releaseLock(c, "X")
  \/ Tick(1)

\* caller 1 takes the lock X, without an expiration, and keeps it: it never
\* releases; the other callers use the three functions on X as they like
SpecOwner == InitChain1 /\ [][OwnerNext]_vars

CrashNext ==
  \/ \E c \in Callers, n \in LockNames, ex \in LockTtls : acquireLock(c, n, ex)
  \/ Elapse

\* holders that crash after acquireLock: nobody extends or releases, and time
\* goes on
SpecCrash == InitChain1 /\ [][CrashNext]_vars /\ WF_vars(Elapse)

\* the triggers submitted to the queue: two contexts, a repeated context
\* with another trigger, an empty order
Info(c, kind, id) ==
  [context |-> c, trigger |-> [kind |-> kind], id |-> id, tokenSetId |-> NoTokenSet, side |-> None]
QueueInputs ==
  {<<Info("c1", "new-order", "o1")>>,
   <<Info("c2", "new-order", "o1")>>,
   <<Info("c1", "cancel", "o1"), Info("c2", "cancel", "o1"), Info("c2", "reprice", "o1")>>,
   <<Info("c2", "reprice", HashZero), Info("c1", "reprice", "o1")>>}
QueueFailures == {{}, {"nftBalance"}}
QueueNext ==
  \/ \E orderInfos \in QueueInputs : addToQueue(orderInfos)
  \/ \E c \in Contexts : Start(c)
  \/ process("c1", {}, "skipped")
  \/ \E F \in QueueFailures : process("c2", F, "skipped")
  \/ \E c \in Contexts : Retry(c)
SpecQueue == InitChain1 /\ [][QueueNext]_vars

\* one job on every order row and every way to name the order or the token set
InitWorker ==
  /\ InitRedis /\ InitLock /\ InitIngest /\ InitJobs /\ InitStore /\ InitSimulate
  /\ chainId = 1
  /\ orders \in [OrderIds -> {r \in Rows \cup {NoRow} : r.found => r.id = "o1"}]
WorkerInputs ==
  {<<Info("c1", kind, "o1")>> : kind \in TriggerKinds}
  \cup {<<[context |-> "c1", trigger |-> [kind |-> "revalidate"], id |-> None,
           tokenSetId |-> t, side |-> sd]>> : t \in TokenSetIds, sd \in Sides}
  \cup {<<[context |-> "c1", trigger |-> [kind |-> "new-order"], id |-> "o1",
           tokenSetId |-> [scheme |-> "contract", rest |-> "0xc"], side |-> sd]>> : sd \in Sides}
WorkerFailures == {{}, {"floorAsk"}, {"normalizedFloorAsk"}, {"activity"}}
WorkerNext ==
  \/ \E orderInfos \in WorkerInputs : jobs["c1"] = NoJob /\ addToQueue(orderInfos)
  \/ Start("c1")
  \/ \E F \in WorkerFailures :
       (F # {} => failures["c1"] < MaxWorkerFailures) /\ process("c1", F, "logged")
  \/ Retry("c1")
SpecWorker == InitWorker /\ [][WorkerNext]_vars

\* the entries of a list: an order, an empty order, a token set with a side
AddEntries ==
  {Info("c1", "new-order", "o1"), Info("c2", "reprice", HashZero),
   [context |-> "c2", trigger |-> [kind |-> "revalidate"], id |-> None,
    tokenSetId |-> [scheme |-> "contract", rest |-> "0xc"], side |-> "buy"]}
AddInputs == UNION {[1..n -> AddEntries] : n \in 0..MaxEntries}
AddNext ==
  \/ \E orderInfos \in AddInputs : addToQueue(orderInfos)
  \/ \E c \in Contexts : Start(c)
  \/ \E c \in Contexts : process(c, {}, "skipped")

\* addToQueue on lists of every mix of entries
SpecAdd == InitChain1 /\ [][AddNext]_vars

RetryNext ==
  \/ addToQueue(<<Info("c1", "new-order", "o1"), Info("c2", "new-order", "o1")>>)
  \/ \E c \in Contexts : Start(c)
  \/ process("c1", {"load"}, "skipped")
  \/ process("c2", {"nftBalance"}, "skipped")
  \/ \E c \in Contexts : Retry(c)

\* two jobs whose every attempt throws: one at the SELECT, one at an enqueue
SpecRetry == InitChain1 /\ [][RetryNext]_vars

LatencyInputs ==
  {<<Info("c1", kind, "o1")>> : kind \in {"new-order", "cancel"}}
  \cup {<<[context |-> "c1", trigger |-> [kind |-> "new-order"], id |-> None,
           tokenSetId |-> [scheme |-> "list", rest |-> "abc"], side |-> "buy"]>>}
LatencyFailures == {{}, {"websocket"}}
LatencyNext ==
  \/ \E orderInfos \in LatencyInputs : jobs["c1"] = NoJob /\ addToQueue(orderInfos)
  \/ Start("c1")
  \/ \E F \in LatencyFailures, lat \in LatencyOutcomes :
       (F # {} => failures["c1"] < MaxWorkerFailures) /\ process("c1", F, lat)
  \/ Retry("c1")

\* the worker with every outcome of the latency step
SpecLatency == InitWorker /\ [][LatencyNext]_vars

\* the lock functions and the order callback on a connection that is lost
\* and comes back
StoreNext ==
  \/ Disconnect
  \/ Reconnect
  \/ \E op \in {"acquire", "extend", "release"} : Offline(1, op, "X", 1)
  \/ \E c \in {1, 2} : acquireLock(c, "X", 1)
  \/ extendLock(1, "X", 1)
  \/ releaseLock(1, "X")
  \/ Deliver("item_listed", "h1")
  \/ onEvents(GoodPayload, TRUE)
SpecStore == InitChain1 /\ [][StoreNext]_vars

\* both callbacks of the ingestor, with repeated events, as time passes
MetadataNext ==
  \/ \E t \in {"item_listed", "trait_offer"} : Deliver(t, "h1")
  \/ \E sent \in PayloadSentAts, chainName \in {"ethereum", "matic"} :
       DeliverMetadata("ethereum/0xc/1", sent, chainName)
  \/ onEvents(GoodPayload, TRUE)
  \/ \E parsed \in ParseResults : onItemMetadataUpdated(parsed, TRUE)
  \/ Tick(DedupTtl - 1)
SpecMetadata == InitChain1 /\ [][MetadataNext]_vars

\* payloads of every way to be dropped: no order parameters, a handler that
\* throws, no protocol data, protocol data that makes decoding throw, the
\* address of another chain's exchange or of another contract; and one
\* accepted payload for each exchange
DecodePayloads ==
  {[GoodPayload EXCEPT !.protocol_address = Exchange(k, chainId)] : k \in ProtocolKinds}
  \cup {[GoodPayload EXCEPT !.params = r] : r \in {"null", "throws"}}
  \cup {[GoodPayload EXCEPT !.protocol_data = d] : d \in ProtocolDatas}
  \cup {[GoodPayload EXCEPT !.protocol_address = Exchange("seaport-v1.5", 0)], BadPayload}

\* the order callback on payloads that decode and payloads that do not
RestartNext ==
  \/ \E t \in {"collection_offer", "trait_offer"} : Deliver(t, "h1")
  \/ onEvents(GoodPayload, TRUE)
  \/ Crash
  \/ Tick(DedupTtl)

\* the ingestor of chain 1 with restarts of its process and a feed that
\* delivers its bid events again
SpecRestart == InitChain1 /\ [][RestartNext]_vars

FeedNext ==
  \/ \E t \in {"item_received_bid", "collection_offer"}, h \in OrderHashes : Deliver(t, h)
  \/ onEvents(GoodPayload, TRUE)

\* the ingestor on a feed of bid events that may fall silent at any time; a
\* callback whose dedup check is answered runs on
SpecFeed == Init /\ [][FeedNext]_vars /\ WF_vars(onEvents(GoodPayload, TRUE))

IdentityNext ==
  \/ \E t \in {"item_listed", "trait_offer"}, h \in OrderHashes : Deliver(t, h)
  \/ DeliverMetadata("ethereum/0xc/1", None, "ethereum")
  \/ onEvents(GoodPayload, TRUE)
  \/ onItemMetadataUpdated("parsed", TRUE)
  \/ Tick(1)

\* order events and metadata updates of the feed, whose messages carry
\* sent_at beside the payload and not in it
SpecIdentity == InitChain1 /\ [][IdentityNext]_vars

DecodeNext ==
  \/ \E t \in {"item_listed", "collection_offer", "trait_offer", "item_sold"} : Deliver(t, "h1")
  \/ \E payload \in DecodePayloads : onEvents(payload, TRUE)
SpecDecode == InitChain1 /\ [][DecodeNext]_vars

\* the order callback when a handler throws or a queue submission rejects
IsolationNext ==
  \/ \E t \in {"item_listed", "collection_offer", "trait_offer"} : Deliver(t, "h1")
  \/ \E ok \in BOOLEAN : onEvents(GoodPayload, ok)
  \/ onEvents([GoodPayload EXCEPT !.params = "throws"], TRUE)
SpecIsolation == InitChain1 /\ [][IsolationNext]_vars

\* jobs without an order id: context c1 with a token set and a side, context
\* c2 with one of the two, or both, left out
TokenSetKinds == {"new-order", "revalidate"}
TokenSetInputs ==
  {<<[context |-> "c1", trigger |-> [kind |-> kind], id |-> None, tokenSetId |-> t, side |-> sd]>> :
     kind \in TokenSetKinds, t \in TokenSetIds, sd \in Sides}
  \cup {<<[context |-> "c2", trigger |-> [kind |-> kind], id |-> None, tokenSetId |-> t, side |-> sd]>> :
          kind \in {"new-order"}, t \in TokenSetIds \cup {NoTokenSet}, sd \in {None}}
  \cup {<<[context |-> "c2", trigger |-> [kind |-> kind], id |-> None, tokenSetId |-> NoTokenSet,
           side |-> sd]>> : kind \in {"new-order"}, sd \in Sides}
TokenSetFailures == {{}, {"topBid"}, {"floorAsk"}}
TokenSetNext ==
  \/ \E orderInfos \in TokenSetInputs :
       jobs[orderInfos[1].context] = NoJob /\ addToQueue(orderInfos)
  \/ \E c \in Contexts : Start(c)
  \/ \E c \in Contexts, F \in TokenSetFailures :
       (F # {} => failures[c] < MaxWorkerFailures) /\ process(c, F, "logged")
  \/ \E c \in Contexts : Retry(c)

\* the worker on jobs that name a token set and a side instead of an order
SpecTokenSet == InitChain1 /\ [][TokenSetNext]_vars

\* one job on an order and every row, with runs in which one awaited call,
\* whichever, rejects
StepInputs == {<<Info("c1", kind, "o1")>> : kind \in {"new-order", "cancel"}}
StepFailures == {{}} \cup {{sink} : sink \in Sinks}
StepNext ==
  \/ \E orderInfos \in StepInputs : jobs["c1"] = NoJob /\ addToQueue(orderInfos)
  \/ Start("c1")
  \/ \E F \in StepFailures :
       (F # {} => failures["c1"] < MaxWorkerFailures) /\ process("c1", F, "logged")
  \/ Retry("c1")

\* the worker when any one of its steps fails
SpecSteps == InitWorker /\ [][StepNext]_vars

\* the orders table for the endpoint: every side and status of one order on
\* one token set, or no row; every chain
SimulationRows ==
  {r \in Rows : r.tokenSetId.scheme = "contract" /\ r.maker = "0xm1"} \cup {NoRow}
InitSimulation ==
  /\ InitRedis /\ InitLock /\ InitIngest /\ InitJobs /\ InitStore /\ InitSimulate
  /\ orders \in [OrderIds -> SimulationRows]
SimulationNext ==
  \E skipRevalidation \in BOOLEAN, env \in SimulationEnvs :
    postSimulateOrderV1("o1", skipRevalidation, env)

\* the simulate-order endpoint on every stored status and simulation result
SpecSimulation == InitSimulation /\ [][SimulationNext]_vars

(***************************************************************************)
(* C1: for a lock name whose key is absent, of the acquireLock calls that  *)
(* run before the key is next released or expires exactly one returns true *)
(* and every other one returns false.                                      *)
(***************************************************************************)
C1_ExactlyOneAcquires ==
  \A n \in LockNames : acqTrue[n] + acqFalse[n] > 0 => acqTrue[n] = 1

\* all the callers ran acquireLock on one absent name: one won, the others lost
C1_Witness ==
  \E n \in LockNames : acqTrue[n] = 1 /\ acqFalse[n] = NCallers - 1

(***************************************************************************)
(* C2: a dedup check reports its event as a duplicate exactly when an      *)
(* earlier check reported the same hash as new less than five minutes      *)
(* before: the first check reports new, every later one inside the window  *)
(* (also one whose callback was already waiting when the first ran)        *)
(* reports a duplicate, and new is reported again only once the window has *)
(* elapsed.                                                                *)
(***************************************************************************)
FiveMinutes == 5 * 60

C2_DedupWindow ==
  lastCheck # NoCheck =>
    (lastCheck.dup <=> (lastCheck.prev >= 0 /\ lastCheck.at < lastCheck.prev + FiveMinutes))

\* a hash was reported new a second time, the moment its window had elapsed,
\* while at the last second of the window it would still have been a duplicate
C2_Witness ==
  /\ lastCheck # NoCheck
  /\ ~lastCheck.dup
  /\ lastCheck.prev >= 0
  /\ lastCheck.at = lastCheck.prev + FiveMinutes

(***************************************************************************)
(* C5: with the buffer empty at the start, the bid triggers accepted so    *)
(* far are, in the order they came, the batches submitted to the orders    *)
(* queue followed by the buffer; every batch has maxEventsSize triggers    *)
(* and the buffer fewer: the first maxEventsSize - 1 accepted bid events   *)
(* cause no submission, the one that fills the buffer causes exactly one   *)
(* submission of the whole buffer and leaves it empty.                     *)
(***************************************************************************)
C5_BatchFlush ==
  LET n == Len(acceptedBids)
      full == n \div maxEventsSize
  IN /\ Len(ordersCalls) = full
     /\ \A i \in 1..Len(ordersCalls) :
          ordersCalls[i].batch =
            SubSeq(acceptedBids, (i - 1) * maxEventsSize + 1, i * maxEventsSize)
     /\ bidsEvents = SubSeq(acceptedBids, full * maxEventsSize + 1, n)
     /\ \A i \in 1..Len(acceptedBids) : acceptedBids[i].openSeaOrderParams \in BidEventTypes

\* on chain 1 a batch of bid triggers of different kinds was submitted when
\* the buffer filled up, and one more trigger waits in the buffer
C5_Witness ==
  /\ chainId = 1
  /\ Len(ordersCalls) = 1
  /\ Len(ordersCalls[1].batch) = maxEventsSizeChain1
  /\ ordersCalls[1].batch[1].openSeaOrderParams # ordersCalls[1].batch[2].openSeaOrderParams
  /\ Len(bidsEvents) = 1
  /\ listingsCalls = <<>>

\* the step is a call of the lock function op
LockStep(op) == calls' = calls + 1 /\ lockRet'.op = op

(***************************************************************************)
(* C9: extendLock never creates a key: on an existing key it returns true  *)
(* and the key expires ttl seconds from now; on an absent key it returns   *)
(* false and the key stays absent.                                         *)
(***************************************************************************)
C9_ExtendNeverCreates ==
  [][LockStep("extend") =>
       LET k == LockKey(lockRet'.name)
       IN IF Exists(redisKeys, k)
          THEN /\ lockRet'.val = TRUE
               /\ Exists(redisKeys', k)
               /\ redisKeys'[k].exp = clock + lockRet'.ex
          ELSE /\ lockRet'.val = FALSE
               /\ ~Exists(redisKeys', k)]_vars

\* an extendLock ran on a name without a key, returned false and left none
C9_Witness ==
  /\ lockRet.op = "extend" /\ lockRet.val = FALSE
  /\ ~Exists(redisKeys, LockKey(lockRet.name))
  /\ clock > 0

(***************************************************************************)
(* C10: releaseLock deletes the key whoever created it, changes nothing    *)
(* when the key is absent, changes no other key, and the first acquireLock *)
(* to run after it returns true.                                           *)
(***************************************************************************)
C10_ReleaseIdempotent ==
  [][/\ LockStep("release") =>
          LET k == LockKey(lockRet'.name)
          IN /\ ~Exists(redisKeys', k)
             /\ \A k2 \in DOMAIN redisKeys \ {k} : redisKeys'[k2] = redisKeys[k2]
             /\ ~Exists(redisKeys, k) => redisKeys' = redisKeys
     /\ (LockStep("acquire") /\ released[lockRet'.name] > 0) => lockRet'.val = TRUE]_vars

\* a key was released twice in a row and the acquireLock that followed
\* obtained it
C10_Witness ==
  \E n \in LockNames :
    /\ afterRelease[n] = 2
    /\ lockRet.op = "acquire" /\ lockRet.name = n /\ lockRet.val = TRUE

\* the calls of a sink among the effects of a context or of a run
Made(effs, sink) == SelectSeq(effs, LAMBDA e : e.sink = sink)
Count(effs, sink) == Len(Made(effs, sink))
RecomputeSinks == {"topBid", "floorAsk", "normalizedFloorAsk", "nftBalance"}

(* C3: over all enqueues, executions, failed attempts and retries, a context
   gets at most one order_events row and at most one of each cache-recompute
   job. *)
C3_AtMostOnce ==
  \A c \in Contexts :
    /\ Count(effects[c], "orderEvents") <= 1
    /\ \A sink \in RecomputeSinks : Count(effects[c], sink) <= 1

(* C4: the job id is the context. An addToQueue entry whose context the queue
   still holds, in any state, changes nothing and creates no job; for a
   context the queue does not hold, the first entry of the call that is not
   an empty order creates the one job, further entries of the same call
   create none. *)
C4_ContextIsJobId ==
  [][adds' = adds + 1 =>
       \A c \in Contexts :
         LET entries == SelectSeq(lastAdd'.orderInfos, LAMBDA o : o.context = c /\ o.id # HashZero)
         IN /\ jobs[c] # NoJob => (jobs'[c] = jobs[c] /\ created'[c] = created[c])
            /\ (jobs[c] = NoJob /\ entries # <<>>) =>
                 /\ jobs'[c] = [state |-> "waiting", data |-> entries[1], attemptsMade |-> 0]
                 /\ created'[c] = created[c] + 1
            /\ (jobs[c] = NoJob /\ entries = <<>>) => (jobs'[c] = NoJob /\ created'[c] = created[c])]_vars

\* a bulk call with c1, retained as completed, and c2 twice
C4_Witness ==
  /\ Len(lastAdd.orderInfos) = 3
  /\ lastAdd.before["c1"].state = "completed"
  /\ lastAdd.before["c2"] = NoJob
  /\ jobs["c1"] = lastAdd.before["c1"]
  /\ jobs["c2"].data = lastAdd.orderInfos[2]
  /\ lastAdd.orderInfos[3].context = "c2"
  /\ created["c1"] = 1 /\ created["c2"] = 1

\* the order row a run has loaded
Loaded(run) == IF run.data.id \in OrderIds THEN orders[run.data.id] ELSE NoRow

(* C6: the row appended for a loaded sell order has status filled, cancelled
   or expired when that is its fillability, whatever its approval; inactive
   when fillability is no-balance, or fillable with approval no-approval;
   active iff fillable and approved. A run that does not fail appends exactly
   one row for a loaded sell order. *)
C6_LedgerStatus ==
  lastRun # NoRun =>
    LET order == Loaded(lastRun)
        f == order.fillabilityStatus
        a == order.approvalStatus
        rows == Made(lastRun.effects, "orderEvents")
    IN /\ rows # <<>> => (order.found /\ order.side = "sell" /\ Len(rows) = 1)
       /\ (order.found /\ order.side = "sell" /\ ~lastRun.thrown) => Len(rows) = 1
       /\ \A i \in DOMAIN rows :
            LET status == rows[i].status
            IN /\ f = "filled" => status = "filled"
               /\ f = "cancelled" => status = "cancelled"
               /\ f = "expired" => status = "expired"
               /\ f = "no-balance" => status = "inactive"
               /\ (f = "fillable" /\ a = "no-approval") => status = "inactive"
               /\ status = "active" <=> (f = "fillable" /\ a = "approved")

\* a cancelled order without approval: the fillability case wins
C6_Witness ==
  /\ lastRun # NoRun
  /\ Loaded(lastRun).fillabilityStatus = "cancelled"
  /\ Loaded(lastRun).approvalStatus = "no-approval"
  /\ Count(lastRun.effects, "orderEvents") = 1
  /\ Made(lastRun.effects, "orderEvents")[1].status = "cancelled"

(* C7: for a run with a loaded order the activity events are: on cancel, one
   sellOrderCancelled or buyOrderCancelled by side, whatever the status; on
   new-order or reprice, one newSellOrder or newBuyOrder by side iff the
   order is fillable and approved; otherwise none. A run that does not fail
   emits exactly these, a run that fails emits no others; without a loaded
   order none is emitted. *)
C7_ActivityGate ==
  lastRun # NoRun =>
    LET order == Loaded(lastRun)
        kind == lastRun.data.trigger.kind
        acts == Made(lastRun.effects, "activity")
        expected ==
          IF ~order.found THEN {}
          ELSE IF kind = "cancel"
          THEN {IF order.side = "sell" THEN "sellOrderCancelled" ELSE "buyOrderCancelled"}
          ELSE IF /\ kind \in {"new-order", "reprice"}
                  /\ order.fillabilityStatus = "fillable"
                  /\ order.approvalStatus = "approved"
          THEN {IF order.side = "sell" THEN "newSellOrder" ELSE "newBuyOrder"}
          ELSE {}
    IN /\ Len(acts) <= 1
       /\ {acts[i].eventKind : i \in DOMAIN acts} \subseteq expected
       /\ ~lastRun.thrown => Len(acts) = Cardinality(expected)

\* a cancel trigger on a filled buy order without approval
C7_Witness ==
  /\ lastRun # NoRun /\ ~lastRun.thrown
  /\ lastRun.data.trigger.kind = "cancel"
  /\ Loaded(lastRun).side = "buy"
  /\ Loaded(lastRun).fillabilityStatus = "filled"
  /\ Loaded(lastRun).approvalStatus = "no-approval"
  /\ Count(lastRun.effects, "activity") = 1
  /\ Made(lastRun.effects, "activity")[1].eventKind = "buyOrderCancelled"

\* the run the end-to-end scenario is about
ListingRun ==
  /\ lastRun # NoRun /\ ~lastRun.thrown
  /\ lastRun.data.trigger.kind = "new-order"
  /\ Loaded(lastRun) = ListedOrder("o1")

(* C8: a run of a new-order trigger that does not fail, on a fillable and
   approved sell order of token set token:123, writes one order_events row
   with status active, one floor-ask, one normalized-floor-ask and one
   nft-balance recompute job, one newSellOrder activity event and one
   websocket SellOrder notification; no top-bid recompute, no bid-events-list
   entry, and nothing else but the latency log line. *)
C8_EndToEndListing ==
  ListingRun =>
    LET made == SelectSeq(lastRun.effects, LAMBDA e : e.sink # "orderLatency")
    IN /\ Len(made) = 6
       /\ Count(made, "orderEvents") = 1 /\ Made(made, "orderEvents")[1].status = "active"
       /\ Count(made, "floorAsk") = 1
       /\ Count(made, "normalizedFloorAsk") = 1
       /\ Count(made, "nftBalance") = 1
       /\ Count(made, "activity") = 1 /\ Made(made, "activity")[1].eventKind = "newSellOrder"
       /\ Count(made, "websocket") = 1 /\ Made(made, "websocket")[1].eventKind = "SellOrder"
       /\ Count(made, "topBid") = 0
       /\ Count(made, "bidEventsList") = 0

C8_Witness ==
  /\ ListingRun
  /\ Len(lastRun.effects) = 7
  /\ jobs[lastRun.context].state = "completed"
  /\ runs[lastRun.context] = 1
(* C11: a lock function called while the store is unavailable ends with an
   error: no call whose command was sent while the connection was down
   returns a normal value. *)
C11_FailsLoudly == ~resent

\* a callback takes the reply of its dedup check, and the check reports a
\* duplicate
DuplicateStep == Len(pending') < Len(pending) /\ lastCheck'.dup

(* C12: a delivery whose dedup check reports a duplicate submits nothing to
   the listings queue or to the orders queue, appends nothing to the bid
   buffer, writes nothing to the metadata sink, and leaves every dedup marker,
   value and expiry, as it was. *)
C12_DuplicateDiscarded ==
  [][DuplicateStep =>
       UNCHANGED <<redisKeys, bidsEvents, listingsCalls, ordersCalls, metadataCalls,
                   acceptedBids>>]_vars

\* a metadata update repeated later inside the window of the first, with bids
\* waiting in the buffer
C12_Witness ==
  /\ lastCheck.dup
  /\ lastCheck.key[2][1] = "item_metadata_updated"
  /\ lastCheck.at > lastCheck.prev
  /\ redisKeys[lastCheck.key].val = lastCheck.prev
  /\ Len(metadataCalls) = 1
  /\ bidsEvents # <<>>

\* the order callback takes the reply of its dedup check and runs to its end
OrderCallbackStep ==
  Len(pending') < Len(pending) /\ Head(pending).event_type # "item_metadata_updated"

\* the callback submits to a queue or appends to the bid buffer
Triggered ==
  \/ listingsCalls' # listingsCalls
  \/ ordersCalls' # ordersCalls
  \/ bidsEvents' # bidsEvents
  \/ acceptedBids' # acceptedBids

(* C13: the order callback submits or buffers a trigger only for an event of
   one of the four kinds whose handler returned order parameters, whose
   protocol data is present and decodes without an exception, and whose
   protocol address is one of the three exchange addresses of the chain; for
   any other event nothing is submitted and the bid buffer is unchanged. An
   event that passes all of these and is not a duplicate is submitted or
   buffered. *)
C13_OnlyDecodedTriggers ==
  [][OrderCallbackStep =>
       LET event == lastEvent'.event
           payload == lastEvent'.payload
           decoded ==
             /\ event.event_type \in {"item_listed", "item_received_bid", "collection_offer",
                                      "trait_offer"}
             /\ payload.params = "params"
             /\ payload.protocol_data = "valid"
             /\ \E k \in {"seaport", "seaport-v1.4", "seaport-v1.5"} :
                  payload.protocol_address = <<k, chainId>>
       IN /\ Triggered => decoded
          /\ ~decoded => UNCHANGED <<bidsEvents, listingsCalls, ordersCalls, acceptedBids>>
          /\ (decoded /\ ~lastCheck'.dup) => Triggered]_vars

\* a bid whose payload names the exchange of another chain is dropped while
\* another bid waits in the buffer
C13_Witness ==
  /\ lastEvent # NoEvent
  /\ lastEvent.event.event_type = "collection_offer"
  /\ ~lastCheck.dup
  /\ lastEvent.payload.params = "params"
  /\ lastEvent.payload.protocol_data = "valid"
  /\ lastEvent.payload.protocol_address = <<"seaport-v1.5", 0>>
  /\ Len(bidsEvents) = 1
  /\ bidsEvents[1].openSeaOrderParams # "collection_offer"
  /\ ordersCalls = <<>>

\* the event of the callback step is accepted: of the four kinds, decoded, and
\* not a duplicate
AcceptedStep ==
  /\ OrderCallbackStep
  /\ ~lastCheck'.dup
  /\ lastEvent'.event.event_type \in
       {"item_listed", "item_received_bid", "collection_offer", "trait_offer"}
  /\ lastEvent'.payload.params = "params"
  /\ lastEvent'.payload.protocol_data = "valid"
  /\ \E k \in {"seaport", "seaport-v1.4", "seaport-v1.5"} :
       lastEvent'.payload.protocol_address = <<k, chainId>>

\* the trigger of an event, whatever its order kind
IsTriggerOf(orderInfo, event) ==
  /\ orderInfo.openSeaOrderParams = event.event_type
  /\ orderInfo.orderParams = event.order_hash
  /\ orderInfo.originatedAt = event.sent_at

(* C14: an accepted item-listed event is submitted in the same callback to
   the listings queue, as a submission of exactly its one trigger, and does
   not touch the bid buffer or the orders queue; an accepted
   item-received-bid, collection-offer or trait-offer event is appended to
   the bid buffer (which is then flushed when full) and the listings queue
   gets nothing. *)
C14_RoutingByKind ==
  [][AcceptedStep =>
       LET event == lastEvent'.event
       IN IF event.event_type = "item_listed"
          THEN /\ Len(listingsCalls') = Len(listingsCalls) + 1
               /\ SubSeq(listingsCalls', 1, Len(listingsCalls)) = listingsCalls
               /\ Len(listingsCalls'[Len(listingsCalls')].batch) = 1
               /\ IsTriggerOf(listingsCalls'[Len(listingsCalls')].batch[1], event)
               /\ UNCHANGED <<bidsEvents, ordersCalls, acceptedBids>>
          ELSE /\ UNCHANGED listingsCalls
               /\ \/ /\ Len(bidsEvents') = Len(bidsEvents) + 1
                     /\ SubSeq(bidsEvents', 1, Len(bidsEvents)) = bidsEvents
                     /\ IsTriggerOf(bidsEvents'[Len(bidsEvents')], event)
                     /\ UNCHANGED ordersCalls
                  \/ /\ bidsEvents' = <<>>
                     /\ Len(ordersCalls') = Len(ordersCalls) + 1
                     /\ LET batch == ordersCalls'[Len(ordersCalls')].batch
                        IN /\ SubSeq(batch, 1, Len(batch) - 1) = bidsEvents
                           /\ IsTriggerOf(batch[Len(batch)], event)]_vars

\* a listing submitted while a bid waits in the buffer
C14_Witness ==
  /\ lastEvent # NoEvent
  /\ lastEvent.event.event_type = "item_listed"
  /\ Len(listingsCalls) = 1
  /\ Len(listingsCalls[1].batch) = 1
  /\ Len(bidsEvents) = 1
  /\ bidsEvents[1].openSeaOrderParams \in BidEventTypes
  /\ ordersCalls = <<>>

(* C15: an exception in the processing of one event costs no other event its
   trigger: every bid trigger that was accepted into the buffer is still in
   the buffer, or was handed to the orders queue by a submission that
   resolved, or is the trigger of the very event whose own submission
   rejected (the last of that batch). *)
C15_ErrorsIsolated ==
  \A i \in DOMAIN acceptedBids :
    LET trigger == acceptedBids[i]
    IN \/ \E j \in DOMAIN bidsEvents : bidsEvents[j] = trigger
       \/ \E j \in DOMAIN ordersCalls :
            /\ ordersCalls[j].state = "resolved"
            /\ \E k \in DOMAIN ordersCalls[j].batch : ordersCalls[j].batch[k] = trigger
       \/ \E j \in DOMAIN ordersCalls :
            /\ ordersCalls[j].state = "rejected"
            /\ ordersCalls[j].batch[Len(ordersCalls[j].batch)] = trigger

(* C16: a job with an order id whose row is not found does nothing: no
   recompute job, no ledger row, no bid-events-list entry, no activity event,
   no websocket notification and no latency log, also when its data names a
   token set and a side; the run does not throw, and the job is completed
   after this one run. *)
C16_MissingOrderNoOp ==
  (lastRun # NoRun /\ lastRun.data.id \in OrderIds /\ ~orders[lastRun.data.id].found) =>
    /\ lastRun.effects = <<>>
    /\ ~lastRun.thrown
    /\ effects[lastRun.context] = <<>>
    /\ jobs[lastRun.context].state = "completed"
    /\ jobs[lastRun.context].attemptsMade = 0
    /\ runs[lastRun.context] = 1
    /\ failures[lastRun.context] = 0

\* the job data names a token set and a side next to the id of a missing row
C16_Witness ==
  /\ lastRun # NoRun
  /\ lastRun.data.id = "o1"
  /\ ~orders["o1"].found
  /\ lastRun.data.side = "sell"
  /\ lastRun.data.tokenSetId.scheme = "contract"
  /\ jobs[lastRun.context].state = "completed"

\* side and token set the last run resolved
RunSide(run) == IF run.data.id \in OrderIds THEN Loaded(run).side ELSE run.data.side
RunTokenSet(run) ==
  IF run.data.id \in OrderIds THEN Loaded(run).tokenSetId ELSE run.data.tokenSetId

(* C17: a run whose side resolves to sell, for its resolved token set, starts
   one floor-ask and one normalized-floor-ask recompute; a run that does not
   throw has enqueued both; a run in which one of the two was not enqueued
   throws and the job is not completed but retried, and a completed job's
   last run has enqueued both. *)
C17_BothFloorAsks ==
  (lastRun # NoRun /\ RunSide(lastRun) = "sell" /\ RunTokenSet(lastRun) # NoTokenSet) =>
    LET floor == Made(lastRun.effects, "floorAsk")
        normalized == Made(lastRun.effects, "normalizedFloorAsk")
        job == jobs[lastRun.context]
    IN /\ Len(floor) <= 1 /\ Len(normalized) <= 1
       /\ \A i \in DOMAIN floor : floor[i].tokenSetId = RunTokenSet(lastRun)
       /\ \A i \in DOMAIN normalized : normalized[i].tokenSetId = RunTokenSet(lastRun)
       /\ ~lastRun.thrown => (Len(floor) = 1 /\ Len(normalized) = 1)
       /\ (Len(floor) = 0 \/ Len(normalized) = 0) =>
            (lastRun.thrown /\ job.state \in {"delayed", "waiting", "active", "failed"})
       /\ job.state = "completed" => (Len(floor) = 1 /\ Len(normalized) = 1)

\* the floor-ask enqueue failed once: the normalized recompute was enqueued
\* alone, the job was retried, and the retry enqueued both
C17_Witness ==
  /\ lastRun # NoRun /\ ~lastRun.thrown
  /\ RunSide(lastRun) = "sell"
  /\ jobs[lastRun.context].state = "completed"
  /\ failures[lastRun.context] = 1
  /\ runs[lastRun.context] = 2
  /\ Count(effects[lastRun.context], "floorAsk") = 1
  /\ Count(effects[lastRun.context], "normalizedFloorAsk") = 2

(* C18: a run whose side resolves to buy, for its resolved token set,
   enqueues no floor-ask and no normalized-floor-ask recompute and at most
   one top-bid recompute; none when the token set id starts with "token";
   and, when the run does not throw, exactly one, for that token set and
   with the trigger's kind, when it does not. *)
C18_TopBidUnlessSingleToken ==
  (lastRun # NoRun /\ RunSide(lastRun) = "buy" /\ RunTokenSet(lastRun) # NoTokenSet) =>
    LET topBids == Made(lastRun.effects, "topBid")
        single == RunTokenSet(lastRun).scheme = "token"
    IN /\ Count(lastRun.effects, "floorAsk") = 0
       /\ Count(lastRun.effects, "normalizedFloorAsk") = 0
       /\ Len(topBids) <= 1
       /\ single => Len(topBids) = 0
       /\ (~single /\ ~lastRun.thrown) => Len(topBids) = 1
       /\ \A i \in DOMAIN topBids :
            /\ topBids[i].tokenSetId = RunTokenSet(lastRun)
            /\ topBids[i].trigger = lastRun.data.trigger.kind

\* a loaded buy order on a token list
C18_Witness ==
  /\ lastRun # NoRun /\ ~lastRun.thrown
  /\ Loaded(lastRun).found
  /\ Loaded(lastRun).side = "buy"
  /\ Loaded(lastRun).tokenSetId.scheme = "list"
  /\ Count(lastRun.effects, "topBid") = 1
  /\ Count(lastRun.effects, "bidEventsList") = 1

(* C19: a run that loads a buy order writes no ledger row and enqueues no
   nft-balance recompute, and a run that loads a sell order adds nothing to
   the bid events list; a run that does not throw adds, for a buy order,
   exactly one entry of that order and the trigger to the bid events list
   and, for a sell order, exactly one ledger row and exactly one nft-balance
   recompute, for the row's contract, token id and maker. *)
C19_LedgerOrBidEvents ==
  (lastRun # NoRun /\ Loaded(lastRun).found) =>
    LET order == Loaded(lastRun)
        rows == Made(lastRun.effects, "orderEvents")
        balances == Made(lastRun.effects, "nftBalance")
        bids == Made(lastRun.effects, "bidEventsList")
    IN /\ Len(rows) <= 1 /\ Len(balances) <= 1 /\ Len(bids) <= 1
       /\ order.side = "buy" =>
            /\ Len(rows) = 0 /\ Len(balances) = 0
            /\ ~lastRun.thrown => Len(bids) = 1
       /\ order.side = "sell" =>
            /\ Len(bids) = 0
            /\ ~lastRun.thrown => (Len(rows) = 1 /\ Len(balances) = 1)
       /\ \A i \in DOMAIN bids :
            bids[i].orderId = order.id /\ bids[i].trigger = lastRun.data.trigger.kind
       /\ \A i \in DOMAIN rows : rows[i].orderId = order.id
       /\ \A i \in DOMAIN balances :
            balances[i].target = [contract |-> order.contract, tokenId |-> order.tokenId,
                                  owner |-> order.maker]

\* a sell order of the second maker went through the ledger branch
C19_Witness ==
  /\ lastRun # NoRun /\ ~lastRun.thrown
  /\ Loaded(lastRun).found
  /\ Loaded(lastRun).side = "sell"
  /\ Loaded(lastRun).maker = "0xm2"
  /\ Count(lastRun.effects, "orderEvents") = 1
  /\ \E i \in DOMAIN lastRun.effects :
       /\ lastRun.effects[i].sink = "nftBalance"
       /\ lastRun.effects[i].target.owner = "0xm2"

(* C20: a run that loads an order and does not throw sends exactly one
   websocket notification, carrying the trigger's kind, the order's id and
   SellOrder for a sell order, BuyOrder for a buy order, whatever the
   trigger kind and the order's statuses and whether or not the run emitted
   an activity event; no run sends more than one, and a run that loads no
   order sends none. *)
C20_WebsocketPerLoadedOrder ==
  lastRun # NoRun =>
    LET order == Loaded(lastRun)
        sent == Made(lastRun.effects, "websocket")
    IN /\ Len(sent) <= 1
       /\ ~order.found => Len(sent) = 0
       /\ (order.found /\ ~lastRun.thrown) => Len(sent) = 1
       /\ \A i \in DOMAIN sent :
            /\ sent[i].trigger = lastRun.data.trigger.kind
            /\ sent[i].orderId = order.id
            /\ sent[i].eventKind = (IF order.side = "sell" THEN "SellOrder" ELSE "BuyOrder")

\* an expired buy order revalidated: no activity event, one notification
C20_Witness ==
  /\ lastRun # NoRun /\ ~lastRun.thrown
  /\ Loaded(lastRun).found
  /\ Loaded(lastRun).side = "buy"
  /\ Loaded(lastRun).fillabilityStatus = "expired"
  /\ lastRun.data.trigger.kind = "revalidate"
  /\ Count(lastRun.effects, "activity") = 0
  /\ \E i \in DOMAIN lastRun.effects :
       /\ lastRun.effects[i].sink = "websocket"
       /\ lastRun.effects[i].eventKind = "BuyOrder"

(* C21: a run writes the latency log only for a new-order trigger with a
   loaded order, and whatever happens in the latency step (not entered, log
   written, log skipped, error thrown) the run throws or not, the job ends
   in the state, and the run makes the other calls, of the same run with
   the latency step skipped. *)
C21_LatencySwallowed ==
  lastRun # NoRun =>
    LET skipped == Handler(lastRun.data, orders, lastRun.F, "skipped")
        others == SelectSeq(lastRun.effects, LAMBDA e : e.sink # "orderLatency")
    IN /\ lastRun.thrown = skipped.thrown
       /\ lastRun.state \in {"completed", "delayed", "failed"}
       /\ (lastRun.state = "completed") = ~skipped.thrown
       /\ Len(others) = Len(skipped.effects)
       /\ \A i \in DOMAIN others : others[i] = skipped.effects[i]
       /\ Count(lastRun.effects, "orderLatency") <= 1
       /\ Count(lastRun.effects, "orderLatency") = 1 =>
            (lastRun.data.trigger.kind = "new-order" /\ Loaded(lastRun).found)

\* the latency step threw on a loaded new order and the job completed
C21_Witness ==
  /\ lastRun # NoRun
  /\ lastRun.lat = "threw"
  /\ LatencyEntered(lastRun.data.trigger, Loaded(lastRun), lastRun.lat)
  /\ ~lastRun.thrown
  /\ lastRun.state = "completed"
  /\ Count(lastRun.effects, "websocket") = 1
  /\ Count(lastRun.effects, "orderLatency") = 0

(* C22: a job that has failed its last attempt stays in the queue's failed
   set: no step, whatever other jobs fail afterwards, removes it. *)
C22_FailedJobKept ==
  [][\A c \in Contexts :
       jobs[c].state = "failed" =>
         (jobs'[c].state = "failed" /\ c \in Range(failedIds'))]_vars

\* the positions of a list whose entry is not an empty order
KeptPositions(orderInfos) == {i \in DOMAIN orderInfos : orderInfos[i].id # HashZero}

(* C23: the jobs addToQueue hands to the queue are the entries of the list
   whose id is not the all-zero hash, those without an id included, each
   exactly once and in the order of the list, each with its context as job
   id; no entry whose id is the all-zero hash is handed over. *)
C23_DropsOnlyHashZero ==
  LET given == lastAdd.orderInfos
      bulk == lastAdd.bulk
  IN /\ Len(bulk) = Cardinality(KeptPositions(given))
     /\ \A k \in DOMAIN bulk :
          /\ bulk[k].data.id # HashZero
          /\ bulk[k].opts.jobId = bulk[k].data.context
     /\ \E pos \in [DOMAIN bulk -> DOMAIN given \cup {0}] :
          /\ \A k \in DOMAIN bulk : pos[k] \in KeptPositions(given) /\ bulk[k].data = given[pos[k]]
          /\ \A k, l \in DOMAIN bulk : k < l => pos[k] < pos[l]

\* a list of an empty order between an entry without an id and an order
C23_Witness ==
  /\ Len(lastAdd.orderInfos) = 3
  /\ lastAdd.orderInfos[1].id = None
  /\ lastAdd.orderInfos[2].id = HashZero
  /\ lastAdd.orderInfos[3].id = "o1"
  /\ Len(lastAdd.bulk) = 2
  /\ lastAdd.bulk[1].name = "contract:0xc-buy"
  /\ lastAdd.bulk[2].name = "o1"
  /\ jobs["c2"].data = lastAdd.orderInfos[1]

(* C24: a lock that acquireLock created with a positive expiration, and that
   nobody extends or releases, is gone after a while, and an acquireLock that
   finds the key gone returns true. *)
C24_LockWithTtlExpires ==
  /\ \A n \in LockNames :
       (lockRet.op = "acquire" /\ lockRet.name = n /\ lockRet.val /\ lockRet.ex > 0)
         ~> ~Exists(redisKeys, LockKey(n))
  /\ [][\A n \in LockNames :
          (calls' = calls + 1 /\ lockRet'.op = "acquire" /\ lockRet'.name = n
             /\ ~Exists(redisKeys, LockKey(n)))
            => lockRet'.val]_vars

\* the original statement: every lock that exists has an expiry
C24_EveryLockHasTtl ==
  \A n \in LockNames : Exists(redisKeys, LockKey(n)) => redisKeys[LockKey(n)].exp # 0

\* a lock was taken with an expiration, it expired, and the next acquireLock
\* on the name returned true
C24_Witness ==
  \E n \in LockNames :
    /\ calls = 2 /\ clock > 0
    /\ lockRet.op = "acquire" /\ lockRet.name = n /\ lockRet.val
    /\ redisKeys[LockKey(n)].val = 2

\* the callback of a metadata update runs from the reply of its dedup check
MetadataStep ==
  /\ pending # <<>> /\ pending' = Tail(pending)
  /\ Head(pending).event_type = "item_metadata_updated"

\* a delivery that starts no dedup check: a metadata update of another chain
ForeignStep == delivered' = delivered + 1 /\ pending' = pending

(* C25: a metadata update of an item of another chain sets no dedup marker
   and writes nothing. Only updates of items of the local chain reach the
   dedup check; the check sets or finds the event's marker; the callback
   makes no metadata write for a duplicate or when the transform gives
   nothing or throws, and otherwise one write of one record; and it leaves
   the listings queue, the orders queue and the bid buffer as they are. *)
C25_MetadataBranch ==
  [][/\ ForeignStep =>
          /\ redisKeys' = redisKeys /\ markedAt' = markedAt
          /\ UNCHANGED <<metadataCalls, listingsCalls, ordersCalls, bidsEvents, acceptedBids, jobs>>
     /\ MetadataStep =>
          LET event == Head(pending)
          IN /\ event.chain = (IF chainId = 1 THEN "ethereum" ELSE IF chainId = 5 THEN "goerli" ELSE "matic")
             /\ Exists(redisKeys', EventKey(event))
             /\ lastCheck'.key = EventKey(event)
             /\ lastCheck'.dup = Exists(redisKeys, EventKey(event))
             /\ UNCHANGED <<listingsCalls, ordersCalls, bidsEvents, acceptedBids, jobs>>
             /\ IF ~lastCheck'.dup /\ lastEvent'.parsed = "parsed"
                THEN /\ Len(metadataCalls') = Len(metadataCalls) + 1
                     /\ SubSeq(metadataCalls', 1, Len(metadataCalls)) = metadataCalls
                     /\ Len(metadataCalls'[Len(metadataCalls')].batch) = 1
                     /\ metadataCalls'[Len(metadataCalls')].batch[1][1] = event.nft_id
                ELSE metadataCalls' = metadataCalls]_vars

\* two updates were delivered; the one of the local chain was written, the
\* other left no marker
C25_Witness ==
  /\ delivered = 2 /\ pending = <<>>
  /\ lastEvent # NoEvent /\ lastEvent.event.event_type = "item_metadata_updated"
  /\ ~lastCheck.dup /\ lastCheck.prev = -1
  /\ Cardinality({k \in EventKeys : Exists(redisKeys, k)}) = 1
  /\ Len(metadataCalls) = 1
  /\ listingsCalls = <<>> /\ ordersCalls = <<>> /\ bidsEvents = <<>>

\* the same event delivered twice: for order events the same kind and order
\* hash; for metadata updates the same item and the same time of sending
SameEvent(e1, e2) ==
  /\ e1.event_type = e2.event_type
  /\ IF e1.event_type = "item_metadata_updated"
     THEN e1.nft_id = e2.nft_id /\ e1.sent_at = e2.sent_at
     ELSE e1.order_hash = e2.order_hash

(* C26: two events that await their dedup check have the same hash, and so
   the same dedup key, exactly when they are the same event. *)
C26_EventIdentity ==
  Len(pending) = 2 =>
    ((getEventHash(pending[1]) = getEventHash(pending[2])) <=> SameEvent(pending[1], pending[2]))

\* the steps of the lock functions on a name, and the step in which its key expires
AcquiredStep(n) ==
  calls' = calls + 1 /\ lockRet'.op = "acquire" /\ lockRet'.name = n /\ lockRet'.val
ReleaseStep(n) == calls' = calls + 1 /\ lockRet'.op = "release" /\ lockRet'.name = n
ExpiryStep(n) ==
  /\ clock' > clock
  /\ redisKeys[LockKey(n)].exp # 0 /\ redisKeys[LockKey(n)].exp <= clock'

(* C27: an acquireLock on a name returns true only when the name's key is
   absent, and a key that exists goes away only by a releaseLock on the
   name, whoever calls it, or by its expiry: after acquireLock returned true
   for a caller, no acquireLock on the name returns true for anyone until a
   releaseLock on the name has run or the key has expired. *)
C27_ExclusiveUntilReleaseByAnyone ==
  [][\A n \in LockNames :
       /\ AcquiredStep(n) => ~Exists(redisKeys, LockKey(n))
       /\ (Exists(redisKeys, LockKey(n)) /\ ~Exists(redisKeys', LockKey(n)))
            => (ReleaseStep(n) \/ ExpiryStep(n))]_vars

\* the original statement, where caller 1 holds X for good: acquireLock on X
\* returns true for no other caller
C27_ExclusiveUntilHolderReleases ==
  (lockRet.op = "acquire" /\ lockRet.name = "X" /\ lockRet.val) => lockRet.caller = 1

\* caller 1 holds X; another caller extended it and a third one's acquireLock
\* returned false
C27_Witness ==
  /\ calls = 3
  /\ lockRet.op = "acquire" /\ lockRet.name = "X" /\ ~lockRet.val /\ lockRet.caller # 1
  /\ acqTrue["X"] = 1 /\ acqFalse["X"] = 1
  /\ Exists(redisKeys, LockKey("X"))
  /\ redisKeys[LockKey("X")].exp # 0

\* the trigger of an event was pushed to the buffer and is neither in the
\* buffer nor in a batch handed to the orders queue
IsTriggerFor(orderInfo, event) ==
  orderInfo.orderParams = event.order_hash /\ orderInfo.openSeaOrderParams = event.event_type
LostTrigger(event) ==
  /\ \E i \in DOMAIN acceptedBids : IsTriggerFor(acceptedBids[i], event)
  /\ \A i \in DOMAIN bidsEvents : ~IsTriggerFor(bidsEvents[i], event)
  /\ \A i \in DOMAIN ordersCalls :
       \A j \in DOMAIN ordersCalls[i].batch : ~IsTriggerFor(ordersCalls[i].batch[j], event)

(* C28: when the feed delivers again an event whose trigger was lost from
   the buffer, the callback takes the event for new and pushes its trigger
   again. *)
C28_RedeliveryAccepted ==
  [][(pending # <<>> /\ pending' = Tail(pending) /\ LostTrigger(Head(pending)))
       => (~lastCheck'.dup /\ Len(acceptedBids') = Len(acceptedBids) + 1)]_vars

(* C29: a buffer that holds bid triggers is emptied into the orders queue
   after a while, whether or not further events arrive. *)
C29_BufferEventuallyFlushed == (bidsEvents # <<>>) ~> (bidsEvents = <<>>)

\* the addToQueue calls that held the trigger of an event, and whether the
\* last of them was rejected
CallsWith(made, event) ==
  {i \in DOMAIN made : \E j \in DOMAIN made[i].batch : IsTriggerFor(made[i].batch[j], event)}
LastRejected(made, event) ==
  /\ CallsWith(made, event) # {}
  /\ LET last == CHOOSE i \in CallsWith(made, event) : \A k \in CallsWith(made, event) : k <= i
     IN made[last].state = "rejected"

(* C30: a callback discards its event as a duplicate only if the handling of
   the earlier delivery did not end in an error: the submission that held
   the event's trigger was not rejected. *)
C30_DuplicateMeansHandled ==
  [][(pending # <<>> /\ pending' = Tail(pending) /\ lastCheck'.dup)
       => (~LastRejected(listingsCalls, Head(pending)) /\ ~LastRejected(ordersCalls, Head(pending)))]_vars

(* C31: the callbacks of the ingestor do not interleave: while the callback
   of one push message is not over, its dedup check included, the callback
   of no other push message has begun. *)
C31_CallbacksDoNotInterleave == Len(pending) <= 1

\* the executions of the jobs of a context that are in progress: the runs
\* started less those that returned and those that threw
InProgress(c) == runs[c] - finished[c] - failures[c]

(* C32: for every context, at every moment at most one execution of a job
   with that context is in progress, and one is in progress exactly while
   the job of that id is active, however addToQueue calls with the same
   context, pick-ups, failures and retries interleave. *)
C32_OneExecutionPerContext ==
  \A c \in Contexts :
    /\ InProgress(c) \in {0, 1}
    /\ InProgress(c) = 1 <=> jobs[c].state = "active"

\* the job of context c2 runs its second attempt, and an addToQueue call that
\* named c2 again came while that attempt was in progress
C32_Witness ==
  /\ adds = 2
  /\ jobs["c2"].state = "active" /\ jobs["c2"].attemptsMade >= 1
  /\ InProgress("c2") = 1
  /\ lastAdd.before["c2"].state = "active"
  /\ \E i \in DOMAIN lastAdd.orderInfos : lastAdd.orderInfos[i].context = "c2"

(* C33: extendLock changes only the expiry of an existing lock: the holder
   token stored under the name is the same before and after the call, and
   no other key is changed. *)
C33_ExtendKeepsHolder ==
  [][LockStep("extend") =>
       LET k == LockKey(lockRet'.name)
       IN /\ Exists(redisKeys, k) => redisKeys'[k].val = redisKeys[k].val
          /\ \A k2 \in DOMAIN redisKeys \ {k} : redisKeys'[k2] = redisKeys[k2]]_vars

\* the sinks a run called, and the recomputes due for a side and a token set
RunSinks(run) == {run.effects[i].sink : i \in DOMAIN run.effects}
RecomputesOf(side, tokenSetId) ==
  IF side = "sell" THEN {"floorAsk", "normalizedFloorAsk"}
  ELSE IF StartsWith(tokenSetId, "token") THEN {} ELSE {"topBid"}

(* C34: a job without an order id that gives a token set and a side makes
   only the cache recomputes of that side, on that token set (buy: top bid,
   unless the set is a single token; sell: floor ask and normalized floor
   ask), all of them when no call rejects, and writes no ledger row, no
   bid-events entry, no activity event, no websocket notification; a job
   without an id that lacks the token set or the side makes no call at all
   and completes. *)
C34_TokenSetJobRecomputesOnly ==
  (lastRun.context # None /\ lastRun.data.id = None) =>
    LET d == lastRun.data
        due == RecomputesOf(d.side, d.tokenSetId)
    IN IF d.tokenSetId # NoTokenSet /\ d.side # None
       THEN /\ RunSinks(lastRun) \subseteq due
            /\ \A i \in DOMAIN lastRun.effects :
                 /\ lastRun.effects[i].tokenSetId = d.tokenSetId
                 /\ lastRun.effects[i].trigger = d.trigger.kind
            /\ ~lastRun.thrown =>
                 (RunSinks(lastRun) = due /\ Len(lastRun.effects) = Cardinality(due)
                  /\ lastRun.state = "completed")
       ELSE lastRun.effects = <<>> /\ ~lastRun.thrown /\ lastRun.state = "completed"

\* the job of c1, on the sell side of a token list, made its two floor
\* recomputes on its second attempt and nothing else; the job of c2, a sell
\* side without a token set, ran last and made no call
C34_Witness ==
  /\ finished["c1"] = 1 /\ failures["c1"] = 1
  /\ effects["c1"][1].tokenSetId.scheme = "list"
  /\ Count(effects["c1"], "floorAsk") = 1
  /\ Count(effects["c1"], "normalizedFloorAsk") = 2
  /\ Len(effects["c1"]) = 3
  /\ lastRun.context = "c2" /\ lastRun.data.id = None /\ lastRun.data.side = "sell"
  /\ lastRun.data.tokenSetId = NoTokenSet
  /\ lastRun.effects = <<>> /\ lastRun.state = "completed"

\* the triggers of the batches handed to a queue, in the order of the calls
RECURSIVE Flushed(_)
Flushed(made) == IF made = <<>> THEN <<>> ELSE Head(made).batch \o Flushed(Tail(made))

(* C35: however the callbacks of the bid events interleave at their awaits,
   the triggers pushed to the buffer are, in the order of their pushes, those
   of the flushed batches in the order of the flushes followed by those
   still in the buffer: every trigger is in exactly one batch or in the
   buffer, none is in two batches, and a batch lists its triggers in push
   order. *)
C35_BatchConservation == Flushed(ordersCalls) \o bidsEvents = acceptedBids

\* chain 1: three bid events were delivered; the callback of the second
\* flushed a full batch, and the trigger of the third sits alone in the buffer
C35_Witness ==
  /\ chainId = 1
  /\ Len(ordersCalls) = 1 /\ Len(ordersCalls[1].batch) = maxEventsSizeChain1
  /\ Len(bidsEvents) = 1
  /\ lastCheck.at = 0 /\ ~lastCheck.dup
  /\ delivered = 3 /\ pending = <<>>

(* C36: between the steps of the callbacks the bid buffer holds fewer than
   maxEventsSize triggers, so that it never holds more than maxEventsSize,
   the push included; every flushed batch holds exactly maxEventsSize
   triggers; on a chain other than chain 1, where maxEventsSize is 1, the
   buffer is empty between steps and every bid trigger is submitted alone. *)
C36_BufferBound ==
  /\ Len(bidsEvents) < maxEventsSize
  /\ \A i \in DOMAIN ordersCalls : Len(ordersCalls[i].batch) = maxEventsSize
  /\ chainId # 1 =>
       /\ bidsEvents = <<>>
       /\ \A i \in DOMAIN ordersCalls : Len(ordersCalls[i].batch) = 1
       /\ Len(ordersCalls) = Len(acceptedBids)

\* chain 1: a full batch went to the orders queue and the buffer holds one
\* trigger less than a batch
C36_Witness ==
  /\ chainId = 1
  /\ ordersCalls # <<>>
  /\ Len(ordersCalls[Len(ordersCalls)].batch) = maxEventsSizeChain1
  /\ Len(bidsEvents) = maxEventsSizeChain1 - 1
  /\ lastEvent.event # <<>> /\ lastEvent.event.event_type \in BidEventTypes

\* a run on a loaded sell order with a new-order or reprice trigger; the rows
\* it appended with status active; the newSellOrder events it emitted
SellCreationRun(run) ==
  /\ run # NoRun
  /\ Loaded(run).found /\ Loaded(run).side = "sell"
  /\ run.data.trigger.kind \in {"new-order", "reprice"}
ActiveRows(run) == SelectSeq(run.effects, LAMBDA e : e.sink = "orderEvents" /\ e.status = "active")
NewSellOrders(run) ==
  SelectSeq(run.effects, LAMBDA e : e.sink = "activity" /\ e.eventKind = "newSellOrder")

(* C37: for a loaded sell order and a new-order or reprice trigger, the gate
   of the activity event and the status of the ledger row agree: a run emits
   a newSellOrder event only if the row it appended has status active, and a
   run that does not fail emits one exactly when its row is active. *)
C37_ActivityIffActiveRow ==
  SellCreationRun(lastRun) =>
    /\ NewSellOrders(lastRun) # <<>> => ActiveRows(lastRun) # <<>>
    /\ ~lastRun.thrown =>
         /\ Count(lastRun.effects, "orderEvents") = 1
         /\ ActiveRows(lastRun) # <<>> <=> NewSellOrders(lastRun) # <<>>
         /\ Len(NewSellOrders(lastRun)) <= 1

\* a reprice of a fillable sell order without approval: the row is inactive
\* and no event is emitted
C37_Witness ==
  /\ SellCreationRun(lastRun) /\ ~lastRun.thrown
  /\ lastRun.data.trigger.kind = "reprice"
  /\ Loaded(lastRun).fillabilityStatus = "fillable"
  /\ Loaded(lastRun).approvalStatus = "no-approval"
  /\ Made(lastRun.effects, "orderEvents")[1].status = "inactive"
  /\ Count(lastRun.effects, "activity") = 0
  /\ Count(lastRun.effects, "websocket") = 1

\* the place of a call in the order of the steps of a run
Rank(sink) ==
  CASE sink \in {"topBid", "floorAsk", "normalizedFloorAsk"} -> 1
    [] sink \in {"orderEvents", "bidEventsList"} -> 2
    [] sink = "nftBalance" -> 3
    [] sink = "activity" -> 4
    [] sink = "websocket" -> 5
    [] OTHER -> 6

\* the calls the run makes when none rejects
Unfailed(run) == Handler(run.data, orders, {}, run.lat).effects

(* C38: within a run on a loaded order the calls come in a fixed order:
   cache recomputes, then the ledger row (sell) or the bid-events entry
   (buy), then the nft-balance recompute (sell), then the activity event,
   then the websocket notification. A call that rejects ends the attempt:
   the calls before it were made, in that order, and none of a later step is
   made. So an attempt that emits an activity event or a websocket
   notification for a sell order has appended its ledger row before. *)
C38_StepsInOrder ==
  (lastRun # NoRun /\ Loaded(lastRun).found) =>
    LET e == lastRun.effects
        full == Unfailed(lastRun)
        due == {f \in lastRun.F : f = "load" \/ \E i \in DOMAIN full : full[i].sink = f}
    IN /\ \A i, j \in DOMAIN e :
            i < j => /\ Rank(e[i].sink) <= Rank(e[j].sink)
                     /\ Rank(e[i].sink) = Rank(e[j].sink) => Rank(e[i].sink) = 1
       /\ lastRun.thrown <=> due # {}
       /\ \A f \in due :
            /\ f = "load" => e = <<>>
            /\ f # "load" =>
                 e = SelectSeq(full, LAMBDA x : x.sink # f /\ Rank(x.sink) <= Rank(f))
       /\ due = {} => e = full
       /\ (Loaded(lastRun).side = "sell"
             /\ \E i \in DOMAIN e : e[i].sink \in {"activity", "websocket"})
            => \E j \in DOMAIN e :
                 /\ e[j].sink = "orderEvents"
                 /\ \A i \in DOMAIN e : e[i].sink \in {"activity", "websocket"} => j < i

\* a cancel of a sell order whose nft-balance enqueue rejects: the two floor
\* recomputes were enqueued and the row appended, and neither the activity
\* event nor the websocket notification is sent
C38_Witness ==
  /\ lastRun # NoRun /\ lastRun.thrown
  /\ lastRun.F = {"nftBalance"}
  /\ lastRun.data.trigger.kind = "cancel"
  /\ Loaded(lastRun).found /\ Loaded(lastRun).side = "sell"
  /\ Len(lastRun.effects) = 3
  /\ lastRun.effects[3].sink = "orderEvents"
  /\ Len(Unfailed(lastRun)) = 6

\* the stored status of the order a call read, and what its simulation gave:
\* the handler replies "Order is fillable" after a simulation that succeeded
\* and "Order is not fillable" after one that failed
StoredActive(call) ==
  call.orderResult.fillabilityStatus = "fillable" /\ call.orderResult.approvalStatus = "approved"
Outcome(call) ==
  IF call.message = "Order is fillable" THEN "succeeded"
  ELSE IF call.message = "Order is not fillable" THEN "failed"
  ELSE "none"

(* C39: a call of the simulate-order handler injects a revalidate-order
   request iff skipRevalidation is false and the outcome of the simulation
   contradicts the stored status: status active when the simulation
   succeeded and the stored order is not fillable and approved, status
   inactive when it failed and the stored order is fillable and approved;
   none when the two agree, when skipRevalidation is true, or when the
   handler returns before the simulation. A call injects at most one request,
   for a sell order and for a buy order alike. *)
C39_RevalidateOnDisagreement ==
  lastSimulation # NoSimulation =>
    LET call == lastSimulation
        request(status) == <<[id |-> call.id, status |-> status]>>
    IN /\ call.requests =
            IF call.skipRevalidation THEN <<>>
            ELSE IF Outcome(call) = "succeeded" /\ ~StoredActive(call) THEN request("active")
            ELSE IF Outcome(call) = "failed" /\ StoredActive(call) THEN request("inactive")
            ELSE <<>>
       /\ Len(call.requests) <= 1
       /\ Len(revalidateCalls) <= simulations
       /\ (chainId \in {1, 137} /\ call.orderResult.found
             /\ call.env = [SimulationEnv EXCEPT !.success = call.env.success])
            => Outcome(call) = IF call.env.success THEN "succeeded" ELSE "failed"

\* two calls on a buy order stored as fillable and approved whose simulation
\* fails: the first with skipRevalidation injected nothing, the second
\* injected one request with status inactive
C39_Witness ==
  /\ simulations = 2
  /\ lastSimulation.orderResult.side = "buy" /\ StoredActive(lastSimulation)
  /\ ~lastSimulation.skipRevalidation
  /\ Outcome(lastSimulation) = "failed"
  /\ lastSimulation.requests = <<[id |-> "o1", status |-> "inactive"]>>
  /\ revalidateCalls = lastSimulation.requests
====
